---------------------------- MODULE Spec2Model ----------------------------
(***************************************************************************)
(* A model of scripts/record_oracle_goldens.py: the balanced-region        *)
(* scanner, the safe expression evaluator, the command pattern library,    *)
(* the loop unroller, the scenario assembler, the oracle runner, the       *)
(* provenance file and the batch driver; of main and write_source of       *)
(* scripts/record_oracle_render_goldens.py; and of                         *)
(* patch_spine_cpp_slider_cpp of scripts/patch_spine_runtimes_oracle.py.   *)
(*                                                                         *)
(* Conventions.  Indices into texts are Python's (0-based): At(text, i) is *)
(* text[i].  A function that returns or raises yields a record             *)
(* [err |-> "", v |-> value] or [err |-> message, v |-> <<>>].             *)
(***************************************************************************)
EXTENDS Integers, Sequences, FiniteSets, TLC

VARIABLES
    pc,          \* position of the driver of the specification at hand
    text,        \* find_matching_brace_slow: the text scanned
    open_index,  \* find_matching_brace_slow: index of the opening brace
    ret,         \* find_matching_brace_slow: what the call returned or raised
    long_text,   \* find_matching_brace: the text, as head ++ filler*pad ++ tail
    slow,        \* loop state of find_matching_brace_slow (i, depth, in_str, escape)
    fast,        \* loop state of find_matching_brace (i, j, depth, in_str, escape)
    ret_slow,    \* result of find_matching_brace_slow(long_text, 0)
    ret_fast,    \* result of find_matching_brace(long_text, 0)
    body_text,   \* parse_commands: the body compiled
    commands,    \* parse_commands: what the call returned or raised
    rs,          \* extract_scenarios: the text of tests.rs (in a run: its tests)
    m_end,       \* extract_scenarios: where fn_re.finditer looks for its next match
    scenarios,   \* extract_scenarios: the list `scenarios`
    s_index,     \* extract_scenarios: how many of `scenarios` the last loop has taken
    unique,      \* extract_scenarios: the dict `unique`, in insertion order
    result,      \* extract_scenarios: what the call returned or raised
    proc,        \* run_oracle: the completed oracle process (returncode, stdout)
    payload,     \* run_oracle: what the call returned or raised
    source_txt,  \* the provenance file tests/golden/SOURCE.txt
    source_was,  \* update_golden_source: the provenance file before the call
    upsert_args, \* update_golden_source: its arguments (status, commit)
    args,        \* main: the parsed command line
    commit,      \* main: what load_upstream_commit returned
    selected,    \* main: the list `selected`
    s_pos,       \* main: how many of `selected` the loop has taken
    atlas_left,  \* main: the atlas candidates not yet tried for the scenario at hand
    last_err,    \* main: whether last_err is set
    ok,          \* main: the counter ok
    failed,      \* main: the counter failed
    golden_files, \* main: the golden files, by output path
    exit_code,   \* main: the exit code of the process
    trace,       \* main: the oracle invocations and file writes so far, in order
    stack,       \* parse_commands: the regions of the calls in progress, innermost last
    rec_calls,   \* parse_commands: how many recursive calls were made so far
    rec_log,     \* parse_commands: every step so far: a call, a return or a raise
    render_args, \* render main: the parsed command line
    render_source, \* render main: the Status line of SOURCE.txt, by format directory
    render_at,   \* render main: the format at hand and the case reached in it
    failures,    \* render main: the counter failures
    render_log,  \* render main: the outcome of every case tried so far, in order
    render_exit, \* render main: the exit code of the process
    patch_text,  \* patch script: the text of Slider.cpp given to the patch
    patched,     \* patch script: what the first patch returned or raised
    repatched    \* patch script: what patching the first result returned or raised

vars == <<pc, text, open_index, ret, long_text, slow, fast, ret_slow, ret_fast,
          body_text, commands, rs, m_end, scenarios, s_index, unique, result,
          proc, payload, source_txt, source_was, upsert_args,
          args, commit, selected, s_pos, atlas_left, last_err, ok, failed,
          golden_files, exit_code, trace, stack, rec_calls, rec_log,
          render_args, render_source, render_at, failures, render_log,
          render_exit, patch_text, patched, repatched>>

scanVars  == <<text, open_index, ret>>
chunkVars == <<long_text, slow, fast, ret_slow, ret_fast>>
parseVars == <<body_text, commands>>
scenarioVars == <<rs, m_end, scenarios, s_index, unique, result>>
oracleVars == <<proc, payload>>
sourceVars == <<source_txt, source_was, upsert_args>>
mainVars == <<args, commit, selected, s_pos, atlas_left, last_err, ok, failed,
              golden_files, exit_code, trace>>

recVars == <<stack, rec_calls, rec_log>>
renderVars == <<render_args, render_source, render_at, failures, render_log,
                render_exit>>
patchVars == <<patch_text, patched, repatched>>

RecIdle == stack = "idle" /\ rec_calls = "idle" /\ rec_log = "idle"
RenderIdle ==
    /\ render_args = "idle" /\ render_source = "idle" /\ render_at = "idle"
    /\ failures = "idle" /\ render_log = "idle" /\ render_exit = "idle"
PatchIdle == patch_text = "idle" /\ patched = "idle" /\ repatched = "idle"
otherVars == <<recVars, renderVars, patchVars>>
OtherIdle == RecIdle /\ RenderIdle /\ PatchIdle
ParseIdle == body_text = "idle" /\ commands = "idle"
ScenarioIdle ==
    /\ rs = "idle" /\ m_end = "idle" /\ scenarios = "idle"
    /\ s_index = "idle" /\ unique = "idle" /\ result = "idle"
OracleIdle == proc = "idle" /\ payload = "idle"
SourceIdle == source_txt = "idle" /\ source_was = "idle" /\ upsert_args = "idle"
MainIdle ==
    /\ args = "idle" /\ commit = "idle" /\ selected = "idle" /\ s_pos = "idle"
    /\ atlas_left = "idle" /\ last_err = "idle" /\ ok = "idle" /\ failed = "idle"
    /\ golden_files = "idle" /\ exit_code = "idle" /\ trace = "idle"
ScanIdle == text = "idle" /\ open_index = "idle" /\ ret = "idle"
ChunkIdle ==
    /\ long_text = "idle" /\ slow = "idle" /\ fast = "idle"
    /\ ret_slow = "idle" /\ ret_fast = "idle"

Idle == "idle"

Return(x) == [err |-> "", v |-> x]
Raise(msg) == [err |-> msg, v |-> <<>>]
Raised(r) == r.err # ""

At(s, i) == s[i + 1]

Min(S) == CHOOSE x \in S : \A y \in S : x <= y

RECURSIVE SeqsUpTo(_, _)
SeqsUpTo(S, n) ==
    IF n = 0 THEN {<<>>}
    ELSE LET shorter == SeqsUpTo(S, n - 1)
         IN  shorter \cup {Append(s, c) : s \in {t \in shorter : Len(t) = n - 1}, c \in S}

(***************************************************************************)
(* Bounds of the model.                                                    *)
(***************************************************************************)
MaxLen == 6
MaxTail == 4

(***************************************************************************)
(* The characters the scanners tell apart; Filler stands for every other   *)
(* character.                                                              *)
(***************************************************************************)
LBrace == "{"
RBrace == "}"
Quote == "\""
Backslash == "\\"
Filler == "a"
Alphabet == {LBrace, RBrace, Quote, Backslash, Filler}

(***************************************************************************)
(* find_matching_brace_slow: one iteration of its loop on character ch.    *)
(* hit is set when the iteration returns.                                  *)
(***************************************************************************)
SlowIterNoEscape(s, ch) ==
    IF s.in_str
    THEN IF ch = Quote THEN [s EXCEPT !.in_str = FALSE] ELSE s
    ELSE IF ch = Quote THEN [s EXCEPT !.in_str = TRUE]
         ELSE IF ch = LBrace THEN [s EXCEPT !.depth = @ + 1]
         ELSE IF ch = RBrace
              THEN [s EXCEPT !.depth = @ - 1, !.hit = (s.depth - 1 = 0)]
              ELSE s

SlowIter(s, ch) ==
    IF s.in_str
    THEN IF s.escape THEN [s EXCEPT !.escape = FALSE]
         ELSE IF ch = Backslash THEN [s EXCEPT !.escape = TRUE]
         ELSE IF ch = Quote THEN [s EXCEPT !.in_str = FALSE]
         ELSE s
    ELSE IF ch = Quote THEN [s EXCEPT !.in_str = TRUE]
         ELSE IF ch = LBrace THEN [s EXCEPT !.depth = @ + 1]
         ELSE IF ch = RBrace
              THEN [s EXCEPT !.depth = @ - 1, !.hit = (s.depth - 1 = 0)]
              ELSE s

SlowStart == [depth |-> 0, in_str |-> FALSE, escape |-> FALSE, hit |-> FALSE]

UnbalancedSlow == "unbalanced braces (slow)"
UnbalancedFast == "unbalanced braces"

RECURSIVE SlowLoop(_, _, _)
SlowLoop(t, i, s) ==
    IF i >= Len(t) THEN Raise(UnbalancedSlow)
    ELSE LET s2 == SlowIter(s, At(t, i))
         IN  IF s2.hit THEN Return(i) ELSE SlowLoop(t, i + 1, s2)

find_matching_brace_slow(t, open) == SlowLoop(t, open, SlowStart)

(***************************************************************************)
(* SpecScan: find_matching_brace_slow applied to every text over Alphabet  *)
(* of length at most MaxLen and every index holding an opening brace.      *)
(***************************************************************************)
Texts == SeqsUpTo(Alphabet, MaxLen)

InitScan ==
    /\ pc = "call"
    /\ text \in Texts
    /\ open_index \in {i \in 0..(MaxLen - 1) : i < Len(text) /\ At(text, i) = LBrace}
    /\ ret = Idle
    /\ ChunkIdle /\ ParseIdle /\ ScenarioIdle
    /\ OracleIdle /\ SourceIdle /\ MainIdle /\ OtherIdle

CallSlow ==
    /\ pc = "call"
    /\ ret' = find_matching_brace_slow(text, open_index)
    /\ pc' = "done"
    /\ UNCHANGED <<text, open_index>>
    /\ UNCHANGED <<chunkVars, parseVars, scenarioVars, oracleVars, sourceVars, mainVars, otherVars>>

NextScan == CallSlow

SpecScan == InitScan /\ [][NextScan]_vars


(***************************************************************************)
(* Reference lexing for the scanner claims, literal by literal: a string   *)
(* literal opened at q is closed by the first later quote preceded by an   *)
(* even number of consecutive backslashes of the literal.                  *)
(***************************************************************************)
BackslashRun(t, q, j) ==
    Cardinality({k \in (q + 1)..(j - 1) : \A m \in k..(j - 1) : At(t, m) = Backslash})

LiteralClose(t, q) ==
    LET C == {j \in (q + 1)..(Len(t) - 1) :
                 At(t, j) = Quote /\ BackslashRun(t, q, j) % 2 = 0}
    IN  IF C = {} THEN Len(t) ELSE Min(C)

RECURSIVE CodePositions(_, _)
CodePositions(t, i) ==
    IF i >= Len(t) THEN {}
    ELSE IF At(t, i) = Quote THEN CodePositions(t, LiteralClose(t, i) + 1)
    ELSE {i} \cup CodePositions(t, i + 1)

Balance(t, open, i) ==
    LET code == {p \in CodePositions(t, open) : p <= i}
    IN  Cardinality({p \in code : At(t, p) = LBrace})
          - Cardinality({p \in code : At(t, p) = RBrace})

Closers(t, open) ==
    {i \in CodePositions(t, open) : At(t, i) = RBrace /\ Balance(t, open, i) = 0}

\* C3: find_matching_brace_slow returns the index of the first closing brace
\* outside string literals at which the count of braces outside string
\* literals (from open_index on) returns to zero, and raises the
\* unbalanced-braces error exactly when there is no such brace.  When
\* open_index itself lies outside every string literal of the whole text, the
\* literals are those of the whole text.
C3_SlowScanMatchesStringAwareCount ==
    pc = "done" =>
        /\ IF Closers(text, open_index) = {}
           THEN ret = Raise(UnbalancedSlow)
           ELSE ret = Return(Min(Closers(text, open_index)))
        /\ open_index \in CodePositions(text, 0) =>
              \A i \in open_index..(Len(text) - 1) :
                  i \in CodePositions(text, 0) <=> i \in CodePositions(text, open_index)

\* C3 witness: the scan returned an index after skipping a closing brace that
\* sits inside a string literal holding an escaped character.
C3_Witness ==
    /\ pc = "done"
    /\ ~Raised(ret)
    /\ \E i \in 0..(Len(text) - 1), k \in 0..(Len(text) - 1) :
          /\ open_index < k /\ k < i /\ i < ret.v
          /\ At(text, k) = Backslash
          /\ k \notin CodePositions(text, open_index)
          /\ At(text, i) = RBrace
          /\ i \notin CodePositions(text, open_index)

(***************************************************************************)
(* find_matching_brace, the chunked scanner.  Its chunks are ChunkSize     *)
(* characters long, so the texts that tell it from the exact scan are      *)
(* longer than a recursive operator can walk: both scanners are run here   *)
(* one character per step on a text head ++ Filler*pad ++ tail with        *)
(* open_index = 0.  The chunk is stripped and counted in one pass: the     *)
(* count loop reads the stripped characters in the order the strip loop    *)
(* appends them, and nothing but the first return leaves either loop.      *)
(***************************************************************************)
ChunkSize == 4096

LLen(t) == Len(t.head) + t.pad + Len(t.tail)

LAt(t, i) ==
    IF i < Len(t.head) THEN At(t.head, i)
    ELSE IF i < Len(t.head) + t.pad THEN Filler
    ELSE At(t.tail, i - Len(t.head) - t.pad)

\* strip_rust_strings_for_brace_count: one iteration; out says whether ch is
\* appended to the stripped chunk.
StripIter(s, ch) ==
    IF s.in_str
    THEN IF s.escape THEN [in_str |-> TRUE, escape |-> FALSE, out |-> FALSE]
         ELSE IF ch = Backslash THEN [in_str |-> TRUE, escape |-> TRUE, out |-> FALSE]
         ELSE IF ch = Quote THEN [in_str |-> FALSE, escape |-> FALSE, out |-> FALSE]
         ELSE [in_str |-> TRUE, escape |-> FALSE, out |-> FALSE]
    ELSE IF ch = Quote THEN [in_str |-> TRUE, escape |-> s.escape, out |-> FALSE]
         ELSE [in_str |-> FALSE, escape |-> s.escape, out |-> TRUE]

LongTexts ==
    {[head |-> <<LBrace>>, pad |-> p, tail |-> t] :
        p \in {0, ChunkSize - 2}, t \in SeqsUpTo({Quote, RBrace, Filler}, MaxTail)}

InitChunk ==
    /\ pc = "slow"
    /\ long_text \in LongTexts
    /\ slow = [i |-> 0, s |-> SlowStart]
    /\ fast = [i |-> 0, j |-> 0, depth |-> 0, in_str |-> FALSE, escape |-> FALSE]
    /\ ret_slow = Idle
    /\ ret_fast = Idle
    /\ ScanIdle /\ ParseIdle /\ ScenarioIdle
    /\ OracleIdle /\ SourceIdle /\ MainIdle /\ OtherIdle

\* find_matching_brace_slow(long_text, 0): one turn of its for loop.
SlowChar ==
    /\ pc = "slow"
    /\ IF slow.i >= LLen(long_text)
       THEN /\ ret_slow' = Raise(UnbalancedSlow)
            /\ pc' = "fast"
            /\ UNCHANGED slow
       ELSE LET s2 == SlowIter(slow.s, LAt(long_text, slow.i))
            IN  IF s2.hit
                THEN /\ ret_slow' = Return(slow.i)
                     /\ pc' = "fast"
                     /\ UNCHANGED slow
                ELSE /\ slow' = [i |-> slow.i + 1, s |-> s2]
                     /\ UNCHANGED <<pc, ret_slow>>
    /\ UNCHANGED <<long_text, fast, ret_fast>>
    /\ UNCHANGED <<scanVars, parseVars, scenarioVars, oracleVars, sourceVars, mainVars, otherVars>>

ChunkLen(t, i) == IF LLen(t) - i < ChunkSize THEN LLen(t) - i ELSE ChunkSize

\* find_matching_brace(long_text, 0): one character of the current chunk.
FastChar ==
    /\ pc = "fast"
    /\ fast.i < LLen(long_text)
    /\ fast.j < ChunkLen(long_text, fast.i)
    /\ LET ch == LAt(long_text, fast.i + fast.j)
           st == StripIter(fast, ch)
           d  == IF ~st.out THEN fast.depth
                 ELSE IF ch = LBrace THEN fast.depth + 1
                 ELSE IF ch = RBrace THEN fast.depth - 1
                 ELSE fast.depth
       IN  IF st.out /\ ch = RBrace /\ d = 0
           THEN /\ ret_fast' = ret_slow
                /\ pc' = "done"
                /\ UNCHANGED fast
           ELSE /\ fast' = [fast EXCEPT !.j = @ + 1, !.depth = d,
                                        !.in_str = st.in_str, !.escape = st.escape]
                /\ UNCHANGED <<pc, ret_fast>>
    /\ UNCHANGED <<long_text, slow, ret_slow>>
    /\ UNCHANGED <<scanVars, parseVars, scenarioVars, oracleVars, sourceVars, mainVars, otherVars>>

\* The chunk is used up: i += ChunkSize, and the next chunk is stripped afresh.
FastNextChunk ==
    /\ pc = "fast"
    /\ fast.i < LLen(long_text)
    /\ fast.j = ChunkLen(long_text, fast.i)
    /\ fast' = [fast EXCEPT !.i = @ + ChunkSize, !.j = 0,
                            !.in_str = FALSE, !.escape = FALSE]
    /\ UNCHANGED <<pc, long_text, slow, ret_slow, ret_fast>>
    /\ UNCHANGED <<scanVars, parseVars, scenarioVars, oracleVars, sourceVars, mainVars, otherVars>>

\* The while loop ends: raise ValueError("unbalanced braces").
FastExhausted ==
    /\ pc = "fast"
    /\ fast.i >= LLen(long_text)
    /\ ret_fast' = Raise(UnbalancedFast)
    /\ pc' = "done"
    /\ UNCHANGED <<long_text, slow, fast, ret_slow>>
    /\ UNCHANGED <<scanVars, parseVars, scenarioVars, oracleVars, sourceVars, mainVars, otherVars>>

NextChunk == SlowChar \/ FastChar \/ FastNextChunk \/ FastExhausted

SpecChunk == InitChunk /\ [][NextChunk]_vars

\* C4: find_matching_brace returns an index exactly when
\* find_matching_brace_slow returns one, and then the same index; it raises
\* exactly when the exact scan raises.
C4_ChunkedScanEqualsExactScan ==
    pc = "done" =>
        /\ Raised(ret_fast) <=> Raised(ret_slow)
        /\ ~Raised(ret_fast) => ret_fast.v = ret_slow.v

(***************************************************************************)
(* Numbers.  A Python float is modelled by the rational [n, d] (d > 0, in  *)
(* lowest terms) it would hold were arithmetic exact; float64 rounding is  *)
(* applied where the value is printed (value_to_string).  The two agree    *)
(* on the expressions the specifications draw: at most one operation of an *)
(* expression is inexact in binary, and its result feeds no further        *)
(* operation other than a sign.                                            *)
(***************************************************************************)
Abs(x) == IF x < 0 THEN -x ELSE x

RECURSIVE Gcd(_, _)
Gcd(a, b) == IF b = 0 THEN a ELSE Gcd(b, a % b)

Rat(n, d) ==
    LET g == Gcd(Abs(n), Abs(d))
        sg == IF d < 0 THEN -1 ELSE 1
    IN  [n |-> sg * (n \div g), d |-> sg * (d \div g)]

RatInt(k) == [n |-> k, d |-> 1]

\* The two zeros of a float: 0.0 is [n |-> 0, d |-> 1] and -0.0 is
\* [n |-> 0, d |-> -1].
Sign(a) == IF a.n > 0 THEN 1 ELSE IF a.n < 0 THEN -1 ELSE a.d
SignedZero(sg) == [n |-> 0, d |-> sg]
NonZeroOr(r, sg) == IF r.n = 0 THEN SignedZero(sg) ELSE r

RatNeg(a) == IF a.n = 0 THEN SignedZero(-a.d) ELSE [n |-> -a.n, d |-> a.d]
\* A sum that cancels is 0.0, unless both terms are -0.0.
RatAdd(a, b) ==
    NonZeroOr(Rat(a.n * b.d + b.n * a.d, a.d * b.d),
              IF a.n = 0 /\ b.n = 0 /\ a.d = -1 /\ b.d = -1 THEN -1 ELSE 1)
RatSub(a, b) == RatAdd(a, RatNeg(b))
RatMul(a, b) == NonZeroOr(Rat(a.n * b.n, a.d * b.d), Sign(a) * Sign(b))
RatDiv(a, b) == NonZeroOr(Rat(a.n * b.d, a.d * b.n), Sign(a) * Sign(b))

\* int(v): truncation toward zero.
RatTrunc(a) ==
    IF a.n = 0 THEN 0 ELSE IF a.n > 0 THEN a.n \div a.d ELSE -((-a.n) \div a.d)

(***************************************************************************)
(* Natural numbers beyond the checker's integers: decimal digits, least    *)
(* significant first, no leading zeros; <<>> is zero.                      *)
(***************************************************************************)
RECURSIVE BigFromNat(_)
BigFromNat(n) == IF n = 0 THEN <<>> ELSE <<n % 10>> \o BigFromNat(n \div 10)

RECURSIVE BigMulCarry(_, _, _)
BigMulCarry(a, m, carry) ==
    IF a = <<>> THEN BigFromNat(carry)
    ELSE LET x == a[1] * m + carry
         IN  <<x % 10>> \o BigMulCarry(Tail(a), m, x \div 10)

BigMulSmall(a, m) == IF m = 0 \/ a = <<>> THEN <<>> ELSE BigMulCarry(a, m, 0)

RECURSIVE Pow2(_)
Pow2(k) == IF k = 0 THEN 1 ELSE 2 * Pow2(k - 1)

RECURSIVE BigMulPow2(_, _)
BigMulPow2(a, k) ==
    IF k > 20 THEN BigMulPow2(BigMulSmall(a, Pow2(20)), k - 20)
    ELSE BigMulSmall(a, Pow2(k))

BigMulPow10(a, k) == IF a = <<>> THEN <<>> ELSE [i \in 1..k |-> 0] \o a

RECURSIVE BigStrip(_)
BigStrip(a) ==
    IF a = <<>> THEN <<>>
    ELSE IF a[Len(a)] = 0 THEN BigStrip(SubSeq(a, 1, Len(a) - 1)) ELSE a

RECURSIVE BigAddCarry(_, _, _)
BigAddCarry(a, b, carry) ==
    IF a = <<>> /\ b = <<>> THEN BigFromNat(carry)
    ELSE LET x == (IF a = <<>> THEN 0 ELSE a[1]) + (IF b = <<>> THEN 0 ELSE b[1]) + carry
         IN  <<x % 10>> \o BigAddCarry(IF a = <<>> THEN <<>> ELSE Tail(a),
                                       IF b = <<>> THEN <<>> ELSE Tail(b), x \div 10)

BigAdd(a, b) == BigAddCarry(a, b, 0)

\* a - b for a >= b.
RECURSIVE BigSubBorrow(_, _, _)
BigSubBorrow(a, b, borrow) ==
    IF a = <<>> THEN <<>>
    ELSE LET x == a[1] - (IF b = <<>> THEN 0 ELSE b[1]) - borrow
         IN  <<(x + 10) % 10>> \o BigSubBorrow(Tail(a), IF b = <<>> THEN <<>> ELSE Tail(b),
                                               IF x < 0 THEN 1 ELSE 0)

BigSub(a, b) == BigStrip(BigSubBorrow(a, b, 0))

RECURSIVE BigLessFrom(_, _, _)
BigLessFrom(a, b, i) ==
    IF i = 0 THEN FALSE
    ELSE IF a[i] # b[i] THEN a[i] < b[i]
    ELSE BigLessFrom(a, b, i - 1)

BigLess(a, b) ==
    IF Len(a) # Len(b) THEN Len(a) < Len(b) ELSE BigLessFrom(a, b, Len(a))

BigLeq(a, b) == ~BigLess(b, a)

\* Quotient and remainder of a by the small number m.
RECURSIVE BigDivFrom(_, _, _, _)
BigDivFrom(a, m, i, rem) ==
    IF i = 0 THEN [q |-> <<>>, r |-> rem]
    ELSE LET x == rem * 10 + a[i]
             rest == BigDivFrom(a, m, i - 1, x % m)
         IN  [q |-> Append(rest.q, x \div m), r |-> rest.r]

BigDivSmall(a, m) ==
    LET res == BigDivFrom(a, m, Len(a), 0)
    IN  [q |-> BigStrip(res.q), r |-> res.r]

(***************************************************************************)
(* float(v): the float64 nearest to the positive rational v (round half to *)
(* even), as f * 2^(-e) with 2^52 <= f < 2^53.                             *)
(***************************************************************************)
MantissaBits == 53

RECURSIVE FloorLog2(_, _)
FloorLog2(n, d) ==
    IF n >= 2 * d THEN 1 + FloorLog2(n, 2 * d)
    ELSE IF n < d THEN FloorLog2(2 * n, d) - 1
    ELSE 0

\* The quotient qr of n * 2^e by d, rounded half to even.
RoundedMantissa(qr, d) ==
    IF 2 * qr.r > d \/ (2 * qr.r = d /\ qr.q[1] % 2 = 1)
    THEN BigAdd(qr.q, <<1>>)
    ELSE qr.q

\* A mantissa rounded up to 2^53 is 2^52 with the exponent one higher.
Normalized(f, e) ==
    IF f = BigMulPow2(<<1>>, MantissaBits)
    THEN [f |-> BigMulPow2(<<1>>, MantissaBits - 1), e |-> e - 1]
    ELSE [f |-> f, e |-> e]

ScaledBy(v, e) ==
    Normalized(RoundedMantissa(BigDivSmall(BigMulPow2(BigFromNat(v.n), e), v.d), v.d), e)

ToFloat64(v) == ScaledBy(v, (MantissaBits - 1) - FloorLog2(v.n, v.d))

(***************************************************************************)
(* repr(float): the shortest decimal digit string that reads back as the   *)
(* same float64, the closest to it among the shortest (free-format digit   *)
(* generation on the rounding interval of the float).  digits are the      *)
(* significant digits, most significant first; the value is                *)
(* 0.digits * 10^decpt.                                                    *)
(***************************************************************************)
RECURSIVE FloorLog10(_, _)
FloorLog10(n, d) ==
    IF n >= 10 * d THEN 1 + FloorLog10(n, 10 * d)
    ELSE IF n < d THEN FloorLog10(10 * n, d) - 1
    ELSE 0

\* The largest digit q with q * s <= r, for r < 10 * s.
RECURSIVE BigDigit(_, _, _)
BigDigit(r, s, q) == IF BigLess(r, s) THEN [q |-> q, r |-> r] ELSE BigDigit(BigSub(r, s), s, q + 1)

\* One digit q (with the remainder r of qr): the digits end when the rest
\* falls inside the rounding interval, below (low) or above (high).
RECURSIVE GenDigits(_, _, _, _, _)
GenChoose(qr, s, mp, mm, even, low, high) ==
    IF ~low /\ ~high THEN <<qr.q>> \o GenDigits(qr.r, s, mp, mm, even)
    ELSE IF low /\ ~high THEN <<qr.q>>
    ELSE IF ~low /\ high THEN <<qr.q + 1>>
    ELSE IF BigLess(BigMulSmall(qr.r, 2), s) THEN <<qr.q>> ELSE <<qr.q + 1>>

GenStep(qr, s, mp, mm, even) ==
    GenChoose(qr, s, mp, mm, even,
              IF even THEN BigLeq(qr.r, mm) ELSE BigLess(qr.r, mm),
              IF even THEN BigLeq(s, BigAdd(qr.r, mp)) ELSE BigLess(s, BigAdd(qr.r, mp)))

GenDigits(r, s, mplus, mminus, even) ==
    GenStep(BigDigit(BigMulSmall(r, 10), s, 0), s,
            BigMulSmall(mplus, 10), BigMulSmall(mminus, 10), even)

\* The estimate est of the decimal exponent is one too small when fix holds.
Fixup(fix, r, s, mplus, mminus, even, est) ==
    [digits |-> GenDigits(r, IF fix THEN BigMulSmall(s, 10) ELSE s, mplus, mminus, even),
     decpt |-> IF fix THEN est + 1 ELSE est]

Scaled(r, s, mplus, mminus, even, est) ==
    Fixup(IF even THEN BigLeq(s, BigAdd(r, mplus)) ELSE BigLess(s, BigAdd(r, mplus)),
          r, s, mplus, mminus, even, est)

\* v = r / s, and the float's neighbours are at distances mplus / s above
\* and mminus / s below (twice as near below a power of two: boundary).
Interval(fl, boundary, est) ==
    Scaled(BigMulPow10(BigMulSmall(fl.f, IF boundary THEN 4 ELSE 2), IF est >= 0 THEN 0 ELSE -est),
           BigMulPow10(BigMulPow2(<<1>>, fl.e + (IF boundary THEN 2 ELSE 1)),
                       IF est >= 0 THEN est ELSE 0),
           BigMulPow10(IF boundary THEN <<2>> ELSE <<1>>, IF est >= 0 THEN 0 ELSE -est),
           BigMulPow10(<<1>>, IF est >= 0 THEN 0 ELSE -est),
           fl.f[1] % 2 = 0, est)

DigitsOf(fl, est) ==
    Interval(fl, fl.f = BigMulPow2(<<1>>, MantissaBits - 1), est)

ShortestDigits(v) == DigitsOf(ToFloat64(v), FloorLog10(v.n, v.d))

DigitChars == <<"0", "1", "2", "3", "4", "5", "6", "7", "8", "9">>

RECURSIVE DigitString(_)
DigitString(ds) == IF ds = <<>> THEN "" ELSE DigitChars[ds[1] + 1] \o DigitString(Tail(ds))

RECURSIVE Zeros(_)
Zeros(k) == IF k <= 0 THEN "" ELSE "0" \o Zeros(k - 1)

\* The layout of repr: positional for -4 < decpt <= 16, else exponent form.
FormatRepr(sd) ==
    LET ds == sd.digits
        k == sd.decpt
        x == k - 1
    IN  IF k > -4 /\ k <= 16
        THEN IF k <= 0 THEN "0." \o Zeros(-k) \o DigitString(ds)
             ELSE IF k >= Len(ds) THEN DigitString(ds) \o Zeros(k - Len(ds)) \o ".0"
             ELSE DigitString(SubSeq(ds, 1, k)) \o "." \o DigitString(SubSeq(ds, k + 1, Len(ds)))
        ELSE DigitString(<<ds[1]>>)
               \o (IF Len(ds) > 1 THEN "." \o DigitString(Tail(ds)) ELSE "")
               \o "e" \o (IF x < 0 THEN "-" ELSE "+")
               \o (IF Abs(x) < 10 THEN "0" ELSE "") \o DigitString(
                     IF Abs(x) < 10 THEN <<Abs(x)>> ELSE <<Abs(x) \div 10, Abs(x) % 10>>)

RatAbs(a) == [n |-> Abs(a.n), d |-> a.d]

\* repr of the values the specifications print most, computed once.
Memoized == {Rat(1, 60), Rat(1, 30), Rat(1, 2), Rat(1, 4), Rat(1, 10), RatInt(1),
             RatInt(2), RatInt(3)}
ReprMemo == [v \in Memoized |-> FormatRepr(ShortestDigits(v))]

PositiveRepr(a) == IF a \in Memoized THEN ReprMemo[a] ELSE FormatRepr(ShortestDigits(a))

\* repr(float(v))
value_to_string(v) ==
    IF v.n = 0 THEN (IF v.d < 0 THEN "-0.0" ELSE "0.0")
    ELSE (IF v.n < 0 THEN "-" ELSE "") \o PositiveRepr(RatAbs(v))

(***************************************************************************)
(* Source text.  A body is a sequence of symbols: single characters        *)
(* [k |-> "ch", c], and the lexemes the regular expressions look for, each *)
(* standing for its whole text:                                            *)
(*   [k |-> "let", name, rhs]        let name = rhs;                       *)
(*   [k |-> "for", count]            for _ in 0..count   (a brace follows) *)
(*   [k |-> "call", recv, m, a, semi]   recv.m(a[1], ..., a[n]) and `;`    *)
(* An argument, a right-hand side or a count is the syntax tree of its     *)
(* text:                                                                   *)
(*   [op |-> "num", s, v, digits]   numeric literal s of value v; digits   *)
(*                                  says s is decimal digits only          *)
(*   [op |-> "name", s, chars]      identifier s (true, None, dt), and its *)
(*                                  characters                             *)
(*   [op |-> "str", s]              "s"                                    *)
(*   [op |-> "neg" | "pos", x]      -x, +x                                 *)
(*   [op |-> "add" | "sub" | "mul" | "div" | "pow" | "cmp", l, r]          *)
(*   [op |-> "paren", x]            (x)                                    *)
(*   [op |-> "call", s, x]          s(x)                                   *)
(*   [op |-> "tuple", items]        x, y                                   *)
(*   [op |-> "mutref", s]           &mut s        (not Python syntax)      *)
(*   [op |-> "path", s, variant]    crate::s::variant (not Python syntax)  *)
(*   [op |-> "some", s]             Some("s")                              *)
(*   [op |-> "cut"]                 a text cut at its first `)`            *)
(***************************************************************************)
Ch(c) == [k |-> "ch", c |-> c]
Let(name, rhs) == [k |-> "let", name |-> name, rhs |-> rhs]
For(count) == [k |-> "for", count |-> count]
Call(recv, m, a) == [k |-> "call", recv |-> recv, m |-> m, a |-> a, semi |-> TRUE]

Num(s, n, d) == [op |-> "num", s |-> s, v |-> Rat(n, d), digits |-> FALSE]
Digits(s, n) == [op |-> "num", s |-> s, v |-> RatInt(n), digits |-> TRUE]

RECURSIVE Join(_)
Join(chars) == IF chars = <<>> THEN "" ELSE chars[1] \o Join(Tail(chars))

Name(chars) == [op |-> "name", s |-> Join(chars), chars |-> chars]
Str(s) == [op |-> "str", s |-> s]
Un(op, x) == [op |-> op, x |-> x]
Bin(op, l, r) == [op |-> op, l |-> l, r |-> r]
Paren(x) == [op |-> "paren", x |-> x]
FnCall(s, x) == [op |-> "call", s |-> s, x |-> x]
Tuple(items) == [op |-> "tuple", items |-> items]
MutRef(s) == [op |-> "mutref", s |-> s]
Path(s, variant) == [op |-> "path", s |-> s, variant |-> variant]
Some(s) == [op |-> "some", s |-> s]
Cut == [op |-> "cut"]

UnaryOps == {"neg", "pos", "paren"}
BinaryOps == {"add", "sub", "mul", "div", "pow", "cmp"}

\* The text holds a `)`.
RECURSIVE HasParen(_)
HasParen(e) ==
    IF e.op \in {"paren", "call", "some"} THEN TRUE
    ELSE IF e.op \in UnaryOps THEN HasParen(e.x)
    ELSE IF e.op \in BinaryOps THEN HasParen(e.l) \/ HasParen(e.r)
    ELSE FALSE

\* ast.parse accepts the text.
RECURSIVE Parsable(_)
Parsable(e) ==
    IF e.op \in {"mutref", "path", "cut"} THEN FALSE
    ELSE IF e.op \in UnaryOps \cup {"call"} THEN Parsable(e.x)
    ELSE IF e.op \in BinaryOps THEN Parsable(e.l) /\ Parsable(e.r)
    ELSE IF e.op = "tuple" THEN \A i \in 1..Len(e.items) : Parsable(e.items[i])
    ELSE TRUE

(***************************************************************************)
(* safe_eval_f32                                                           *)
(***************************************************************************)
ErrSyntax == "SyntaxError"
ErrUnsupported == "unsupported expr"
ErrZeroDivision == "ZeroDivisionError"
ErrUnknownVariable == "unknown variable"
ErrInvalidBool == "invalid bool"
ErrInvalidMixBlend == "invalid MixBlend"
ErrInvalidPhysics == "invalid Physics"
ErrInvalidRepeat == "invalid loop repeat"

RECURSIVE eval_node(_)
eval_node(n) ==
    IF n.op = "paren" THEN eval_node(n.x)
    ELSE IF n.op = "num" THEN Return(n.v)
    ELSE IF n.op \in {"pos", "neg"}
    THEN LET v == eval_node(n.x)
         IN  IF Raised(v) THEN v
             ELSE IF n.op = "pos" THEN v ELSE Return(RatNeg(v.v))
    ELSE IF n.op \in {"add", "sub", "mul", "div"}
    THEN LET a == eval_node(n.l)
             b == eval_node(n.r)
         IN  IF Raised(a) THEN a
             ELSE IF Raised(b) THEN b
             ELSE IF n.op = "add" THEN Return(RatAdd(a.v, b.v))
             ELSE IF n.op = "sub" THEN Return(RatSub(a.v, b.v))
             ELSE IF n.op = "mul" THEN Return(RatMul(a.v, b.v))
             ELSE IF b.v.n = 0 THEN Raise(ErrZeroDivision)
             ELSE Return(RatDiv(a.v, b.v))
    ELSE Raise(ErrUnsupported)

\* expr.replace("_", "") and ast.parse on an identifier: digits alone are an
\* integer literal (one with a leading zero is not Python), True and False
\* are the constants 1 and 0, anything else is a name.  (No specification
\* draws an identifier of underscores only, which leaves a hole in the text.)
NotUnderscore(c) == c # "_"

DigitValue(c) == CHOOSE d \in 0..9 : DigitChars[d + 1] = c

RECURSIVE Decimal(_)
Decimal(cs) ==
    IF cs = <<>> THEN 0
    ELSE 10 * Decimal(SubSeq(cs, 1, Len(cs) - 1)) + DigitValue(cs[Len(cs)])

IsDecimal(cs) == \A i \in 1..Len(cs) : \E d \in 1..10 : DigitChars[d] = cs[i]

BareWord(t) ==
    IF t = <<>> THEN Cut
    ELSE IF IsDecimal(t)
    THEN IF Len(t) > 1 /\ t[1] = "0" /\ Decimal(t) # 0 THEN Cut
         ELSE Digits(Join(t), Decimal(t))
    ELSE IF t = <<"T", "r", "u", "e">> THEN Digits("True", 1)
    ELSE IF t = <<"F", "a", "l", "s", "e">> THEN Digits("False", 0)
    ELSE Name(t)

RECURSIVE Stripped(_)
Stripped(e) ==
    IF e.op = "name" THEN BareWord(SelectSeq(e.chars, NotUnderscore))
    ELSE IF e.op \in UnaryOps THEN Un(e.op, Stripped(e.x))
    ELSE IF e.op \in BinaryOps THEN Bin(e.op, Stripped(e.l), Stripped(e.r))
    ELSE IF e.op = "call" THEN FnCall(e.s, Stripped(e.x))
    ELSE IF e.op = "tuple" THEN Tuple([i \in 1..Len(e.items) |-> Stripped(e.items[i])])
    ELSE e

\* ast.parse and eval_node on the text without its underscores.
Evaluated(e) == IF ~Parsable(e) THEN Raise(ErrSyntax) ELSE eval_node(e)

safe_eval_f32(expr) == Evaluated(Stripped(expr))

(***************************************************************************)
(* extract_const_env: env is a function from the bound names to values.    *)
(***************************************************************************)
EmptyEnv == [x \in {} |-> RatInt(0)]

\* A table that keeps the first value of a name.
BindOnce(env, name, v) ==
    [x \in DOMAIN env \cup {name} |-> IF x \in DOMAIN env THEN env[x] ELSE v]

Bind(env, name, v) == [x \in DOMAIN env \cup {name} |-> IF x = name THEN v ELSE env[x]]

RECURSIVE ExtractFrom(_, _, _)
ExtractFrom(body, i, env) ==
    IF i >= Len(body) THEN env
    ELSE IF At(body, i).k # "let" THEN ExtractFrom(body, i + 1, env)
    ELSE LET v == safe_eval_f32(At(body, i).rhs)
         IN  IF Raised(v) THEN ExtractFrom(body, i + 1, env)
             ELSE ExtractFrom(body, i + 1, Bind(env, At(body, i).name, v.v))

extract_const_env(body) == ExtractFrom(body, 0, EmptyEnv)

(***************************************************************************)
(* parse_value, parse_bool, parse_mix_blend, parse_physics_mode            *)
(***************************************************************************)
parse_value(token, env) ==
    IF token.op = "name"
    THEN IF token.s \notin DOMAIN env THEN Raise(ErrUnknownVariable)
         ELSE Return(env[token.s])
    ELSE safe_eval_f32(token)

parse_bool(token) ==
    IF token = "true" THEN Return("1")
    ELSE IF token = "false" THEN Return("0")
    ELSE Raise(ErrInvalidBool)

parse_mix_blend(variant) ==
    IF variant = "Setup" THEN Return("setup")
    ELSE IF variant = "First" THEN Return("first")
    ELSE IF variant = "Replace" THEN Return("replace")
    ELSE IF variant = "Add" THEN Return("add")
    ELSE Raise(ErrInvalidMixBlend)

parse_physics_mode(variant) ==
    IF variant = "None" THEN Return("none")
    ELSE IF variant = "Reset" THEN Return("reset")
    ELSE IF variant = "Update" THEN Return("update")
    ELSE IF variant = "Pose" THEN Return("pose")
    ELSE Raise(ErrInvalidPhysics)

(***************************************************************************)
(* The pattern table of parse_commands_no_loops.  A row is the regular     *)
(* expression, read as: the receiver it wants, the method name, the shape  *)
(* of each argument, whether a `;` must follow; and the token builder, a   *)
(* list of literal tokens and converted arguments (by argument position).  *)
(*   receiver  "mix"    an identifier or state.data_mut()                  *)
(*             "state"  state     "skeleton"  skeleton                     *)
(*             "dot"    any receiver, then a dot                           *)
(*             "word"   a word boundary: a bare call or any receiver       *)
(*   shape     "digits" ([0-9]+)        "quoted" \"([^\"]+)\"              *)
(*             "bool" (true|false)      "value" ([^\)]+?)                  *)
(*             "valueNC" ([^\),]+?)     "mutstate" &mut state              *)
(*             "mutskeleton" &mut skeleton   "none" None                   *)
(*             "somequoted" Some("...")                                    *)
(*             "mixblend" crate::MixBlend::([A-Za-z]+)                     *)
(*             "physics" crate::Physics::([A-Za-z]+)                       *)
(***************************************************************************)
Row(recv, name, shape, semi, out) ==
    [recv |-> recv, name |-> name, shape |-> shape, semi |-> semi, out |-> out]
Lit(s) == [conv |-> "lit", s |-> s, i |-> 0]
G(conv, i) == [conv |-> conv, s |-> "", i |-> i]

EntryValueRow(name, flag) ==
    Row("dot", name, <<"mutstate", "value">>, FALSE, <<Lit(flag), G("value", 2)>>)
EntryBoolRow(name, flag) ==
    Row("dot", name, <<"mutstate", "bool">>, FALSE, <<Lit(flag), G("bool", 2)>>)

PatternTable == <<
    Row("mix", "set_mix", <<"quoted", "quoted", "value">>, FALSE,
        <<Lit("--mix"), G("raw", 1), G("raw", 2), G("value", 3)>>),
    Row("state", "set_animation", <<"digits", "quoted", "bool">>, FALSE,
        <<Lit("--set"), G("raw", 1), G("raw", 2), G("bool", 3)>>),
    Row("state", "add_animation", <<"digits", "quoted", "bool", "value">>, FALSE,
        <<Lit("--add"), G("raw", 1), G("raw", 2), G("bool", 3), G("value", 4)>>),
    Row("state", "set_empty_animation", <<"digits", "value">>, FALSE,
        <<Lit("--set-empty"), G("raw", 1), G("value", 2)>>),
    Row("state", "add_empty_animation", <<"digits", "valueNC", "value">>, FALSE,
        <<Lit("--add-empty"), G("raw", 1), G("value", 2), G("value", 3)>>),
    Row("skeleton", "set_skin", <<"somequoted">>, FALSE,
        <<Lit("--set-skin"), G("raw", 1)>>),
    Row("skeleton", "set_skin", <<"none">>, FALSE,
        <<Lit("--set-skin"), Lit("none")>>),
    Row("dot", "set_mix_blend", <<"mutstate", "mixblend">>, FALSE,
        <<Lit("--entry-mix-blend"), G("mixblend", 2)>>),
    EntryValueRow("set_alpha", "--entry-alpha"),
    EntryValueRow("set_event_threshold", "--entry-event-threshold"),
    EntryValueRow("set_alpha_attachment_threshold", "--entry-alpha-attachment-threshold"),
    EntryValueRow("set_mix_attachment_threshold", "--entry-mix-attachment-threshold"),
    EntryValueRow("set_mix_draw_order_threshold", "--entry-mix-draw-order-threshold"),
    EntryBoolRow("set_hold_previous", "--entry-hold-previous"),
    EntryBoolRow("set_reverse", "--entry-reverse"),
    EntryBoolRow("set_shortest_rotation", "--entry-shortest-rotation"),
    Row("dot", "reset_rotation_directions", <<"mutstate">>, FALSE,
        <<Lit("--entry-reset-rotation-directions")>>),
    Row("word", "step", <<"mutstate", "mutskeleton", "value">>, FALSE,
        <<Lit("--physics"), Lit("none"), Lit("--step"), G("value", 3)>>),
    Row("word", "step_physics", <<"mutstate", "mutskeleton", "value">>, FALSE,
        <<Lit("--physics"), Lit("update"), Lit("--step"), G("value", 3)>>),
    Row("word", "step_with_physics", <<"mutstate", "mutskeleton", "valueNC", "physics">>, FALSE,
        <<Lit("--physics"), G("physics", 4), Lit("--step"), G("value", 3)>>),
    Row("state", "update", <<"value">>, TRUE,
        <<Lit("--physics"), Lit("none"), Lit("--step"), G("value", 1)>>)
>>

IdentReceivers == {"state", "skeleton", "entry"}

RecvFits(kind, recv) ==
    IF kind = "mix" THEN recv \in IdentReceivers \cup {"state.data_mut()"}
    ELSE IF kind = "state" THEN recv = "state"
    ELSE IF kind = "skeleton" THEN recv = "skeleton"
    ELSE IF kind = "dot" THEN recv # ""
    ELSE TRUE

ArgFits(shape, arg) ==
    IF shape = "digits" THEN arg.op = "num" /\ arg.digits
    ELSE IF shape = "quoted" THEN arg.op = "str" /\ arg.s # ""
    ELSE IF shape = "bool" THEN arg.op = "name" /\ arg.s \in {"true", "false"}
    ELSE IF shape = "valueNC" THEN ~HasParen(arg)
    ELSE IF shape = "mutstate" THEN arg.op = "mutref" /\ arg.s = "state"
    ELSE IF shape = "mutskeleton" THEN arg.op = "mutref" /\ arg.s = "skeleton"
    ELSE IF shape = "none" THEN arg.op = "name" /\ arg.s = "None"
    ELSE IF shape = "somequoted" THEN arg.op = "some" /\ arg.s # ""
    ELSE IF shape = "mixblend" THEN arg.op = "path" /\ arg.s = "MixBlend"
    ELSE IF shape = "physics" THEN arg.op = "path" /\ arg.s = "Physics"
    ELSE FALSE

NoMatch == [ok |-> FALSE, g |-> <<>>]

\* pat.finditer on one call: the groups the row captures from it, by argument
\* position.  A final ([^\)]+?) takes everything up to the first `)`: further
\* arguments with their commas, or an argument cut at its own `)`.
Match(row, c) ==
    LET n == Len(row.shape)
        k == Len(c.a)
    IN  IF \/ c.m # row.name
           \/ ~RecvFits(row.recv, c.recv)
           \/ k < n
           \/ \E i \in 1..(n - 1) : ~ArgFits(row.shape[i], c.a[i])
        THEN NoMatch
        ELSE IF row.shape[n] = "value"
        THEN IF \E i \in n..k : HasParen(c.a[i])
             THEN IF row.semi THEN NoMatch
                  ELSE [ok |-> TRUE, g |-> Append(SubSeq(c.a, 1, n - 1), Cut)]
             ELSE IF row.semi /\ ~c.semi THEN NoMatch
             ELSE [ok |-> TRUE,
                   g |-> Append(SubSeq(c.a, 1, n - 1), IF k = n THEN c.a[n] ELSE Tuple(SubSeq(c.a, n, k)))]
        ELSE IF k = n /\ ArgFits(row.shape[n], c.a[n]) /\ (row.semi => c.semi)
        THEN [ok |-> TRUE, g |-> c.a]
        ELSE NoMatch

\* value_to_string(parse_value(token, env))
ValueToken(v) == IF Raised(v) THEN v ELSE Return(value_to_string(v.v))

\* One element of a row's token list.
Convert(item, g, env) ==
    IF item.conv = "lit" THEN Return(item.s)
    ELSE IF item.conv = "raw" THEN Return(g[item.i].s)
    ELSE IF item.conv = "bool" THEN parse_bool(g[item.i].s)
    ELSE IF item.conv = "mixblend" THEN parse_mix_blend(g[item.i].variant)
    ELSE IF item.conv = "physics" THEN parse_physics_mode(g[item.i].variant)
    ELSE ValueToken(parse_value(g[item.i], env))

\* A token list is evaluated left to right: the first element that raises
\* ends it.
ConsTokens(t, rest) == IF Raised(rest) THEN rest ELSE Return(<<t.v>> \o rest.v)

\* fn(m): the row's token list.
RECURSIVE BuildTokens(_, _, _, _)
ConsToken(t, out, i, g, env) ==
    IF Raised(t) THEN t ELSE ConsTokens(t, BuildTokens(out, i + 1, g, env))

BuildTokens(out, i, g, env) ==
    IF i > Len(out) THEN Return(<<>>)
    ELSE ConsToken(Convert(out[i], g, env), out, i, g, env)

FailedToParse(inner) == "failed to parse: " \o inner

\* The places where a row matches: <<row index, offset of the call>>.
Hits(rows, body) ==
    {p \in (1..Len(rows)) \X (0..(Len(body) - 1)) :
        /\ At(body, p[2]).k = "call"
        /\ Match(rows[p[1]], At(body, p[2])).ok}

\* fn(m) for the match of row p[1] at offset p[2].
TokensAt(rows, body, env, p) ==
    BuildTokens(rows[p[1]].out, 1, Match(rows[p[1]], At(body, p[2])).g, env)

\* The order in which the two nested loops visit the matches: rows in table
\* order, and for each row its matches in text order.
VisitedBefore(p, q) == p[1] < q[1] \/ (p[1] = q[1] /\ p[2] < q[2])

FirstVisited(ps) == CHOOSE p \in ps : \A q \in ps : q = p \/ VisitedBefore(p, q)

\* The list `matches`, given fn(m) of every match (built): the first fn(m)
\* that raises ends the call with ValueError("failed to parse ...").
Pool(hits, built) ==
    IF \E p \in hits : Raised(built[p])
    THEN Raise(FailedToParse(built[FirstVisited({p \in hits : Raised(built[p])})].err))
    ELSE Return([k \in 1..Cardinality(hits) |->
                    LET p == CHOOSE q \in hits :
                                 Cardinality({x \in hits : VisitedBefore(x, q)}) = k - 1
                    IN  [start |-> p[2], tokens |-> built[p].v]])

PoolOf(hits, rows, body, env) ==
    Pool(hits, [p \in hits |-> TokensAt(rows, body, env, p)])

\* The two nested loops that fill `matches`.
CollectMatches(rows, body, env) == PoolOf(Hits(rows, body), rows, body, env)

\* The list `matches` left in the order of the pattern table.
UnsortedByStart(ms) == ms

\* matches.sort(key=start): a stable sort.
SortByStart(ms) ==
    LET rank == [i \in 1..Len(ms) |->
                    1 + Cardinality({j \in 1..Len(ms) :
                          \/ ms[j].start < ms[i].start
                          \/ (ms[j].start = ms[i].start /\ j < i)})]
    IN  [k \in 1..Len(ms) |-> ms[CHOOSE i \in 1..Len(ms) : rank[i] = k]]

RECURSIVE Flatten(_)
Flatten(ms) == IF ms = <<>> THEN <<>> ELSE ms[1].tokens \o Flatten(Tail(ms))

\* The sort and the flattening of `matches` into the token list.
SortedTokens(matches) ==
    IF Raised(matches) THEN matches ELSE Return(Flatten(SortByStart(matches.v)))

NoLoops(rows, body, env) == SortedTokens(CollectMatches(rows, body, env))

parse_commands_no_loops(body, env) == NoLoops(PatternTable, body, env)

(***************************************************************************)
(* parse_commands                                                          *)
(***************************************************************************)
\* The scanner's view of a body: a lexeme is neutral to it (its quotes are
\* paired, and it holds no brace and no backslash).
Chars(body) == [i \in 1..Len(body) |-> IF body[i].k = "ch" THEN body[i].c ELSE Filler]

\* loop_re matches at i: `for _ in 0..` a count of letters, digits and
\* underscores, then the brace.
LoopAt(body, i) ==
    /\ At(body, i).k = "for"
    /\ \/ At(body, i).count.op = "name"
       \/ At(body, i).count.op = "num" /\ At(body, i).count.digits
    /\ i + 1 < Len(body)
    /\ At(body, i + 1) = Ch(LBrace)

Slice(s, from, to) == SubSeq(s, from + 1, to)

\* A loop body that is emitted once whatever the count.
EmittedOnce(tokens, n) == IF n <= 0 THEN <<>> ELSE tokens

\* for _ in range(repeat): cmds.extend(inner_cmds)
RECURSIVE Replicate(_, _)
Replicate(tokens, n) == IF n <= 0 THEN <<>> ELSE tokens \o Replicate(tokens, n - 1)

\* An unroller that puts the commands after the loop before its blocks.
UnrolledOutOfPlace(c1, inner_cmds, repeat, c3) ==
    IF Raised(c1) THEN c1
    ELSE IF Raised(inner_cmds) THEN inner_cmds
    ELSE IF Raised(c3) THEN c3
    ELSE Return(c1.v \o c3.v \o Replicate(inner_cmds.v, repeat))

\* An unroller that looks at the inner commands only when they are used.
UnrolledLazily(c1, inner_cmds, repeat, c3) ==
    IF Raised(c1) THEN c1
    ELSE IF repeat > 0 /\ Raised(inner_cmds) THEN inner_cmds
    ELSE IF Raised(c3) THEN c3
    ELSE Return(c1.v \o (IF repeat > 0 THEN Replicate(inner_cmds.v, repeat) ELSE <<>>) \o c3.v)

\* cmds after the three extends.
Unrolled(c1, inner_cmds, repeat, c3) ==
    IF Raised(c1) THEN c1
    ELSE IF Raised(inner_cmds) THEN inner_cmds
    ELSE IF Raised(c3) THEN c3
    ELSE Return(c1.v \o Replicate(inner_cmds.v, repeat) \o c3.v)

\* The unrolling of the first loop header, at `start`, whose brace closes at
\* close_brace; value is parse_value of the count.
RECURSIVE parse_commands_env(_, _)
UnrollAt(body, env, start, close_brace, value) ==
    IF Raised(close_brace) THEN close_brace
    ELSE IF Raised(value) THEN value
    ELSE IF RatTrunc(value.v) < 0 THEN Raise(ErrInvalidRepeat)
    ELSE Unrolled(parse_commands_env(Slice(body, 0, start), env),
                  parse_commands_env(Slice(body, start + 2, close_brace.v), env),
                  RatTrunc(value.v),
                  parse_commands_env(Slice(body, close_brace.v + 1, Len(body)), env))

UnrollFirst(body, env, start) ==
    UnrollAt(body, env, start,
             find_matching_brace_slow(Chars(body), start + 1),
             parse_value(At(body, start).count, env))

\* parse_commands(body, env) with env given: a body without a loop header
\* falls through to parse_commands_no_loops; the regions of the first loop
\* are compiled by the recursive calls, which consume the rest of the body.
parse_commands_env(body, env) ==
    IF \A i \in 0..(Len(body) - 1) : ~LoopAt(body, i)
    THEN parse_commands_no_loops(body, env)
    ELSE UnrollFirst(body, env, Min({i \in 0..(Len(body) - 1) : LoopAt(body, i)}))

\* parse_commands(body): env is None, so it is extracted from the body.
parse_commands(body) == parse_commands_env(body, extract_const_env(body))

(***************************************************************************)
(* The compile specification: parse_commands is called once on a body      *)
(* drawn from the sequences of at most MaxBody symbols: a binding, two     *)
(* calls of the vocabulary, loop headers with a literal and with a named   *)
(* count, and the two braces.                                              *)
(***************************************************************************)
MaxBody == 6

LetDt == Let("dt", Bin("div", Num("1.0", 1, 1), Num("60.0", 60, 1)))
SetAnimationRun == Call("state", "set_animation", <<Digits("0", 0), Str("run"), Name(<<"t", "r", "u", "e">>)>>)
StepDt == Call("", "step", <<MutRef("state"), MutRef("skeleton"), Name(<<"d", "t">>)>>)

\* A loop header comes with its opening brace.
Pieces ==
    {<<LetDt>>, <<SetAnimationRun>>, <<StepDt>>,
     <<For(Digits("2", 2)), Ch(LBrace)>>, <<For(Name(<<"d", "t">>)), Ch(LBrace)>>,
     <<Ch(RBrace)>>}

\* The concatenations of pieces that are at most n symbols long.
RECURSIVE BodiesUpTo(_)
BodiesUpTo(n) ==
    IF n = 0 THEN {<<>>}
    ELSE LET shorter == BodiesUpTo(n - 1)
         IN  shorter \cup {bp[1] \o bp[2] :
                             bp \in {x \in shorter \X Pieces : Len(x[1]) + Len(x[2]) = n}}

Bodies == BodiesUpTo(MaxBody)

InitParse ==
    /\ pc = "call"
    /\ body_text \in Bodies
    /\ commands = Idle
    /\ ScanIdle /\ ChunkIdle /\ ScenarioIdle
    /\ OracleIdle /\ SourceIdle /\ MainIdle /\ OtherIdle

CallParseCommands ==
    /\ pc = "call"
    /\ commands' = parse_commands(body_text)
    /\ pc' = "done"
    /\ UNCHANGED body_text
    /\ UNCHANGED <<scanVars, chunkVars, scenarioVars, oracleVars, sourceVars, mainVars, otherVars>>

NextParse == CallParseCommands

SpecParse == InitParse /\ [][NextParse]_vars

(***************************************************************************)
(* The call specification: parse_commands is called once on a body that    *)
(* holds one call, with or without the binding of dt before it.  The call  *)
(* is a call of the vocabulary in which one argument is replaced by an     *)
(* argument of another kind.                                               *)
(***************************************************************************)
NameDt == Name(<<"d", "t">>)
NameTrue == Name(<<"t", "r", "u", "e">>)
NameFalse == Name(<<"f", "a", "l", "s", "e">>)

Templates ==
    {Call("state", "set_mix", <<Str("walk"), Str("run"), Num("0.5", 1, 2)>>),
     SetAnimationRun,
     Call("state", "add_animation", <<Digits("0", 0), Str("run"), NameFalse, Num("0.5", 1, 2)>>),
     Call("state", "set_empty_animation", <<Digits("1", 1), Num("0.5", 1, 2)>>),
     Call("skeleton", "set_skin", <<Some("skin")>>),
     Call("skeleton", "set_skin", <<Name(<<"N", "o", "n", "e">>)>>),
     Call("entry", "set_mix_blend", <<MutRef("state"), Path("MixBlend", "Add")>>),
     Call("entry", "set_alpha", <<MutRef("state"), Num("0.5", 1, 2)>>),
     Call("entry", "set_hold_previous", <<MutRef("state"), NameTrue>>),
     Call("entry", "set_reverse", <<MutRef("state"), NameFalse>>),
     Call("entry", "set_shortest_rotation", <<MutRef("state"), NameTrue>>),
     StepDt,
     Call("", "step_with_physics",
          <<MutRef("state"), MutRef("skeleton"), Num("0.5", 1, 2), Path("Physics", "Pose")>>),
     Call("state", "update", <<NameDt>>)}

Arguments ==
    {Digits("0", 0), Digits("1", 1), Num("0.5", 1, 2), Str("run"),
     NameTrue, NameFalse, Name(<<"N", "o", "n", "e">>), NameDt,
     Name(<<"n", "a", "m", "e">>), Name(<<"_", "1">>),
     Un("neg", NameDt), Un("neg", Num("0.5", 1, 2)),
     Bin("mul", NameDt, Digits("2", 2)),
     Bin("mul", Num("0.5", 1, 2), Digits("2", 2)),
     Bin("add", Name(<<"_", "1">>), Digits("2", 2)),
     Un("pos", Name(<<"T", "r", "u", "e">>)),
     Bin("div", Num("1.0", 1, 1), Num("60.0", 60, 1)),
     Bin("div", Digits("1", 1), Digits("0", 0)),
     Bin("cmp", Digits("1", 1), Digits("2", 2)),
     Bin("pow", Digits("2", 2), Digits("2", 2)),
     FnCall("foo", Digits("1", 1)),
     MutRef("state"), MutRef("skeleton"),
     Path("Physics", "None"), Path("Physics", "Bogus"), Path("MixBlend", "Bogus"),
     Some("skin")}

Calls ==
    UNION {{[c EXCEPT !.a[i] = arg] : i \in 1..Len(c.a), arg \in Arguments} : c \in Templates}

CallBodies == {<<c>> : c \in Calls} \cup {<<LetDt, c>> : c \in Calls}

InitCalls ==
    /\ pc = "call"
    /\ body_text \in CallBodies
    /\ commands = Idle
    /\ ScanIdle /\ ChunkIdle /\ ScenarioIdle
    /\ OracleIdle /\ SourceIdle /\ MainIdle /\ OtherIdle

SpecCalls == InitCalls /\ [][NextParse]_vars

(***************************************************************************)
(* Claims on the compile specification.  The regions of the first loop are *)
(* told by the reference lexing above, not by the scanner.                 *)
(***************************************************************************)
HasLoop(b) == \E i \in 0..(Len(b) - 1) : LoopAt(b, i)
FirstLoop(b) == Min({i \in 0..(Len(b) - 1) : LoopAt(b, i)})
LoopClosers(b) == Closers(Chars(b), FirstLoop(b) + 1)
LoopClose(b) == Min(LoopClosers(b))
Before(b) == SubSeq(b, 1, FirstLoop(b))
Inside(b) == SubSeq(b, FirstLoop(b) + 3, LoopClose(b))
After(b) == SubSeq(b, LoopClose(b) + 2, Len(b))
Count(b) == parse_value(At(b, FirstLoop(b)).count, extract_const_env(b))
Repeat(b) == RatTrunc(Count(b).v)

\* The first loop of b is closed and its count evaluates to N >= 0.
CountedLoop(b) ==
    /\ HasLoop(b)
    /\ LoopClosers(b) # {}
    /\ ~Raised(Count(b))
    /\ Repeat(b) >= 0

\* T repeated N times.
Times(T, N) == [i \in 1..(N * Len(T)) |-> T[((i - 1) % Len(T)) + 1]]

\* before ++ inside x N ++ after, of three compiled regions; a region that
\* raises leaves no token list.
Equation(cmds, B, I, A, N) ==
    IF Raised(B) \/ Raised(I) \/ Raised(A) THEN Raised(cmds)
    ELSE /\ cmds = Return(B.v \o Times(I.v, N) \o A.v)
         /\ Len(cmds.v) = Len(B.v) + N * Len(I.v) + Len(A.v)
         /\ N = 0 => cmds.v = B.v \o A.v

\* C1 (as amended): for every body whose first loop is closed and has an
\* evaluated count N >= 0, parse_commands(body) is the tokens of the text
\* before the loop, then N times the tokens of the text between its braces,
\* then the tokens of the text after it, each region compiled under the
\* constant environment of the whole body; its length is
\* len(before) + N * len(inside) + len(after), no inner token appears when
\* N = 0, and the call raises when a region does.
C1_UnrolledUnderBodyEnv ==
    (pc = "done" /\ CountedLoop(body_text)) =>
        Equation(commands,
                 parse_commands_env(Before(body_text), extract_const_env(body_text)),
                 parse_commands_env(Inside(body_text), extract_const_env(body_text)),
                 parse_commands_env(After(body_text), extract_const_env(body_text)),
                 Repeat(body_text))

\* C1 witness: a loop of count 2 with tokens before it, inside it and after
\* it was unrolled.
C1_Witness ==
    /\ pc = "done"
    /\ CountedLoop(body_text)
    /\ ~Raised(commands)
    /\ Repeat(body_text) = 2
    /\ parse_commands_env(Before(body_text), extract_const_env(body_text)).v # <<>>
    /\ parse_commands_env(Inside(body_text), extract_const_env(body_text)).v # <<>>
    /\ parse_commands_env(After(body_text), extract_const_env(body_text)).v # <<>>

\* C1 as stated: the three regions are compiled by parse_commands itself,
\* each under the environment of its own text.
C1_UnrolledUnderRegionEnv ==
    (pc = "done" /\ CountedLoop(body_text)) =>
        Equation(commands,
                 parse_commands(Before(body_text)),
                 parse_commands(Inside(body_text)),
                 parse_commands(After(body_text)),
                 Repeat(body_text))

\* The rows that recognize the call at offset i.
RowsAt(rows, b, i) ==
    {r \in 1..Len(rows) : At(b, i).k = "call" /\ Match(rows[r], At(b, i)).ok}

Recognized(b) == {i \in 0..(Len(b) - 1) : RowsAt(PatternTable, b, i) # {}}

\* The token group of the recognized call at offset i.
GroupAt(b, i) ==
    TokensAt(PatternTable, b, extract_const_env(b),
             <<CHOOSE r \in RowsAt(PatternTable, b, i) : TRUE, i>>)

\* The groups of the recognized calls from offset i on, in source order.
RECURSIVE GroupsFrom(_, _)
GroupsFrom(b, i) ==
    IF i >= Len(b) THEN <<>>
    ELSE (IF i \in Recognized(b) THEN GroupAt(b, i).v ELSE <<>>) \o GroupsFrom(b, i + 1)

Reversed(rows) == [r \in 1..Len(rows) |-> rows[Len(rows) + 1 - r]]

\* C2: for a loop-free body the token list is the concatenation of the token
\* groups of the recognized calls in increasing source offset, each group
\* whole and starting with its flag; no call is recognized by more than one
\* row; and the list is the same when the rows of the pattern table are
\* taken in the opposite order (as is the fact of raising, when a group
\* cannot be built).
C2_TokensInSourceOrder ==
    (pc = "done" /\ ~HasLoop(body_text)) =>
        /\ \A i \in 0..(Len(body_text) - 1) :
              Cardinality(RowsAt(PatternTable, body_text, i)) <= 1
        /\ \A r \in 1..Len(PatternTable) : PatternTable[r].out[1].conv = "lit"
        /\ Raised(commands) <=>
              \E i \in Recognized(body_text) : Raised(GroupAt(body_text, i))
        /\ Raised(commands) <=>
              Raised(NoLoops(Reversed(PatternTable), body_text, extract_const_env(body_text)))
        /\ ~Raised(commands) =>
              /\ commands.v = GroupsFrom(body_text, 0)
              /\ commands = NoLoops(Reversed(PatternTable), body_text,
                                    extract_const_env(body_text))

\* C2 witness: two calls were compiled whose rows stand in the table in the
\* order opposite to that of the calls in the text.
C2_Witness ==
    /\ pc = "done"
    /\ ~HasLoop(body_text)
    /\ ~Raised(commands)
    /\ \E i \in Recognized(body_text), j \in Recognized(body_text) :
          /\ i < j
          /\ \E r \in RowsAt(PatternTable, body_text, i),
                q \in RowsAt(PatternTable, body_text, j) : q < r

\* C9: the body `let dt = 1.0/60.0; state.set_animation(0, "run", true);
\* step(&mut state, &mut skeleton, dt);` compiles to exactly the eight tokens
\* --set 0 run 1 --physics none --step 0.016666667.
C9_EndToEndTokens ==
    (pc = "done" /\ body_text = <<LetDt, SetAnimationRun, StepDt>>) =>
        commands = Return(<<"--set", "0", "run", "1",
                            "--physics", "none", "--step", "0.016666667">>)

(***************************************************************************)
(* Claims on the call specification.                                       *)
(***************************************************************************)
\* The call of a body that holds one call, and its offset.
CallOffset(b) == CHOOSE i \in 0..(Len(b) - 1) : At(b, i).k = "call"
TheCall(b) == At(b, CallOffset(b))

\* The call names a method of the vocabulary on a receiver the method's row
\* takes.
VocabularyCall(c) ==
    \E r \in 1..Len(PatternTable) :
        PatternTable[r].name = c.m /\ RecvFits(PatternTable[r].recv, c.recv)

\* C5: a call to a vocabulary method whose arguments fit no recognized shape
\* makes parse_commands raise; it is never left out of the token list in
\* silence.
C5_UnrecognizedCallRaises ==
    (pc = "done" /\ VocabularyCall(TheCall(body_text))
                 /\ RowsAt(PatternTable, body_text, CallOffset(body_text)) = {}) =>
        Raised(commands)

\* An expression built from literals, names bound in env, unary +/- and
\* binary + - * /, whose divisions are by nonzero values; and its value with
\* each name replaced by what env binds it to.
RECURSIVE Replay(_, _)
Replay(e, env) ==
    IF e.op = "num" THEN e.v
    ELSE IF e.op = "name" THEN env[e.s]
    ELSE IF e.op = "neg" THEN RatNeg(Replay(e.x, env))
    ELSE IF e.op = "pos" THEN Replay(e.x, env)
    ELSE IF e.op = "add" THEN RatAdd(Replay(e.l, env), Replay(e.r, env))
    ELSE IF e.op = "sub" THEN RatSub(Replay(e.l, env), Replay(e.r, env))
    ELSE IF e.op = "mul" THEN RatMul(Replay(e.l, env), Replay(e.r, env))
    ELSE RatDiv(Replay(e.l, env), Replay(e.r, env))

RECURSIVE Replayable(_, _)
Replayable(e, env) ==
    IF e.op = "num" THEN TRUE
    ELSE IF e.op = "name" THEN e.s \in DOMAIN env
    ELSE IF e.op \in {"neg", "pos"} THEN Replayable(e.x, env)
    ELSE IF e.op \in {"add", "sub", "mul"} THEN Replayable(e.l, env) /\ Replayable(e.r, env)
    ELSE IF e.op = "div"
    THEN Replayable(e.l, env) /\ Replayable(e.r, env) /\ Replay(e.r, env).n # 0
    ELSE FALSE

\* The numeric arguments of the call as row r captures them:
\* <<position in the token group, captured expression>>.
ValueGroups(r, c) ==
    {<<k, Match(PatternTable[r], c).g[PatternTable[r].out[k].i]>> :
        k \in {j \in 1..Len(PatternTable[r].out) : PatternTable[r].out[j].conv = "value"}}

\* The elements of the token list of row r other than the k-th convert.
OthersConvert(r, c, k, env) ==
    \A j \in 1..Len(PatternTable[r].out) :
        j = k \/ ~Raised(Convert(PatternTable[r].out[j], Match(PatternTable[r], c).g, env))

\* C6: a numeric argument of a recognized call that is built from literals,
\* names bound in the environment, unary +/- and binary + - * / evaluates to
\* the arithmetic result with each name replaced by its bound value: the
\* call (its other arguments being convertible) compiles and the argument's
\* token is that result serialized.
C6_NamesResolvedInsideArithmetic ==
    pc = "done" =>
        \A r \in RowsAt(PatternTable, body_text, CallOffset(body_text)) :
            \A kg \in ValueGroups(r, TheCall(body_text)) :
                (/\ Replayable(kg[2], extract_const_env(body_text))
                 /\ OthersConvert(r, TheCall(body_text), kg[1], extract_const_env(body_text))) =>
                    /\ ~Raised(commands)
                    /\ commands.v[kg[1]] =
                          value_to_string(Replay(kg[2], extract_const_env(body_text)))

\* An expression made of numeric literals, unary +/- and binary + - * / only.
RECURSIVE LiteralArithmetic(_)
LiteralArithmetic(e) ==
    IF e.op = "num" THEN TRUE
    ELSE IF e.op \in {"neg", "pos"} THEN LiteralArithmetic(e.x)
    ELSE IF e.op \in {"add", "sub", "mul", "div"}
    THEN LiteralArithmetic(e.l) /\ LiteralArithmetic(e.r)
    ELSE FALSE

\* C7: in a numeric argument of a recognized call, a bare name not bound in
\* the environment fails with the unknown-variable error, and an expression
\* (of Python's syntax) of any form other than numeric literal, unary +/-
\* and binary + - * / fails with the unsupported-expression error; either
\* way parse_commands raises and returns no token list.
C7_NoValueForUnreplayable ==
    pc = "done" =>
        \A r \in RowsAt(PatternTable, body_text, CallOffset(body_text)) :
            \A kg \in ValueGroups(r, TheCall(body_text)) :
                /\ (kg[2].op = "name" /\ kg[2].s \notin DOMAIN extract_const_env(body_text)) =>
                      /\ parse_value(kg[2], extract_const_env(body_text)).err = ErrUnknownVariable
                      /\ Raised(commands)
                /\ (kg[2].op # "name" /\ Parsable(kg[2]) /\ ~LiteralArithmetic(kg[2])) =>
                      /\ parse_value(kg[2], extract_const_env(body_text)).err = ErrUnsupported
                      /\ Raised(commands)

\* The rows that carry a boolean flag, the argument that holds it and the
\* place of its token in the group.
BoolRows == {r \in 1..Len(PatternTable) : \E i \in 1..Len(PatternTable[r].shape) :
                                             PatternTable[r].shape[i] = "bool"}
BoolArg(r) == CHOOSE i \in 1..Len(PatternTable[r].shape) : PatternTable[r].shape[i] = "bool"
BoolToken(r) ==
    CHOOSE k \in 1..Len(PatternTable[r].out) :
        PatternTable[r].out[k].conv = "bool" /\ PatternTable[r].out[k].i = BoolArg(r)

\* The call is one of row r but for the argument in the flag's position:
\* its other arguments fit, a numeric one being a numeric literal.
FitsButForFlag(r, c) ==
    /\ c.m = PatternTable[r].name
    /\ RecvFits(PatternTable[r].recv, c.recv)
    /\ Len(c.a) = Len(PatternTable[r].shape)
    /\ \A i \in 1..Len(c.a) :
          \/ i = BoolArg(r)
          \/ PatternTable[r].shape[i] = "value" /\ c.a[i].op = "num"
          \/ ArgFits(PatternTable[r].shape[i], c.a[i])

\* C8: for a call that carries a boolean flag, the flag's token is "1" when
\* the source literal is true and "0" when it is false, and any other
\* literal (a number, a quoted string) in that position is a parse error.
C8_BoolFlagSerialized ==
    pc = "done" =>
        \A r \in BoolRows :
            FitsButForFlag(r, TheCall(body_text)) =>
                LET flag == TheCall(body_text).a[BoolArg(r)]
                IN  /\ flag = NameTrue =>
                          ~Raised(commands) /\ commands.v[BoolToken(r)] = "1"
                    /\ flag = NameFalse =>
                          ~Raised(commands) /\ commands.v[BoolToken(r)] = "0"
                    /\ flag.op \in {"num", "str"} => Raised(commands)

(***************************************************************************)
(* extract_scenarios.  The text of the file is a sequence of symbols: the  *)
(* symbols of a body and                                                   *)
(*   [k |-> "fn", name, skel]     a match of fn_re, `#[test] ... fn name(`;*)
(*                                skel is the path of the first            *)
(*                                example_json_path("...") inside the      *)
(*                                match, "" when it holds none             *)
(*   [k |-> "skel", path]         example_json_path("path")                *)
(*   [k |-> "golden", path]       golden_path("path")                      *)
(*   [k |-> "golden_skel", path]  golden_skel_path("path")                 *)
(*   [k |-> "dump_pose", path]    dump_pose(&skeleton, .., Some("path"))   *)
(* The paths are not empty (the patterns capture one character at least),  *)
(* so "" stands for a search without a match and for a debug_slot of None. *)
(***************************************************************************)
Fn(name, skel) == [k |-> "fn", name |-> name, skel |-> skel]
Skel(path) == [k |-> "skel", path |-> path]
Golden(path) == [k |-> "golden", path |-> path]
GoldenSkel(path) == [k |-> "golden_skel", path |-> path]
DumpPose(path) == [k |-> "dump_pose", path |-> path]

Scenario(name, skeleton_rel, golden_file, golden_is_skel, cmds, debug_slot) ==
    [name |-> name, skeleton_rel |-> skeleton_rel, golden_file |-> golden_file,
     golden_is_skel |-> golden_is_skel, commands |-> cmds, debug_slot |-> debug_slot]

\* re.search of one of the patterns in a slice: the path of the first match.
Found(slice, k) == {i \in 1..Len(slice) : slice[i].k = k}
Search(slice, k) == IF Found(slice, k) = {} THEN "" ELSE slice[Min(Found(slice, k))].path

\* The next match of fn_re.finditer at or after `from`, -1 when there is none.
NextMatch(t, from) ==
    IF \A i \in from..(Len(t) - 1) : At(t, i).k # "fn" THEN -1
    ELSE Min({i \in from..(Len(t) - 1) : At(t, i).k = "fn"})

\* text.find("{", from)
FindBrace(t, from) ==
    IF \A i \in from..(Len(t) - 1) : At(t, i) # Ch(LBrace) THEN -1
    ELSE Min({i \in from..(Len(t) - 1) : At(t, i) = Ch(LBrace)})

\* What one iteration of the loop over the matches does: it skips the match
\* (continue), raises, or appends a Scenario.
Skipped == [kind |-> "continue", err |-> "", s |-> <<>>]
Failed(err) == [kind |-> "raise", err |-> err, s |-> <<>>]
Appended(s) == [kind |-> "append", err |-> "", s |-> s]

\* commands, extended with the dump of the debug slot.
WithDump(cmds, debug_slot) ==
    IF debug_slot = "" THEN cmds ELSE cmds \o <<"--dump-slot-vertices", debug_slot>>

Compiled(name, skeleton_rel, golden_file, golden_is_skel, cmds, debug_slot) ==
    IF Raised(cmds) THEN Failed(cmds.err)
    ELSE Appended(Scenario(name, skeleton_rel, golden_file, golden_is_skel,
                           WithDump(cmds.v, debug_slot), debug_slot))

\* The iteration from the golden match on; golden_path is searched first.
WithGolden(name, body, skeleton_rel, golden, golden_skel) ==
    IF golden = "" /\ golden_skel = "" THEN Skipped
    ELSE Compiled(name, skeleton_rel,
                  IF golden # "" THEN golden ELSE golden_skel,
                  golden = "",
                  parse_commands(body),
                  Search(body, "dump_pose"))

\* The iteration from the skeleton match on; in_body is the search in the
\* body, in_fn the search in text[fn_start:brace_close].
WithSkeleton(name, body, in_body, in_fn) ==
    IF in_body = "" /\ in_fn = "" THEN Skipped
    ELSE WithGolden(name, body, IF in_body # "" THEN in_body ELSE in_fn,
                    Search(body, "golden"), Search(body, "golden_skel"))

\* The iteration once the braces are found; the function slice starts with
\* the match itself.
WithBody(t, m, brace_open, brace_close) ==
    IF Raised(brace_close) THEN Failed(brace_close.err)
    ELSE WithSkeleton(At(t, m).name,
                      Slice(t, brace_open + 1, brace_close.v),
                      Search(Slice(t, brace_open + 1, brace_close.v), "skel"),
                      IF At(t, m).skel # "" THEN At(t, m).skel
                      ELSE Search(Slice(t, m + 1, brace_close.v), "skel"))

WithBrace(t, m, brace_open) ==
    IF brace_open < 0 THEN Skipped
    ELSE WithBody(t, m, brace_open, find_matching_brace_slow(Chars(t), brace_open))

\* The iteration for the match at m.
Iteration(t, m) == WithBrace(t, m, FindBrace(t, m + 1))

\* The dict `unique`: its items in insertion order.
KeyOf(s) == <<s.golden_file, s.golden_is_skel, s.skeleton_rel>>

\* A dict that keeps the value it first got for a key.
KeepFirst(d, key, s) ==
    IF \E i \in 1..Len(d) : d[i].key = key THEN d
    ELSE Append(d, [key |-> key, value |-> s])

\* unique[key] = s
Put(d, key, s) ==
    IF \E i \in 1..Len(d) : d[i].key = key
    THEN [i \in 1..Len(d) |-> IF d[i].key = key THEN [key |-> key, value |-> s] ELSE d[i]]
    ELSE Append(d, [key |-> key, value |-> s])

\* list(unique.values())
Values(d) == [i \in 1..Len(d) |-> d[i].value]

(***************************************************************************)
(* The scenario specification: extract_scenarios runs on a file of at most *)
(* MaxTests test definitions, one step for each iteration of its two       *)
(* loops.                                                                  *)
(***************************************************************************)
MaxTests == 3

StepHalf == Call("", "step", <<MutRef("state"), MutRef("skeleton"), Num("0.5", 1, 2)>>)

Definitions ==
    {<<Fn("oracle_a", ""), Ch(LBrace), Skel("spineboy"), Golden("g1"), SetAnimationRun, Ch(RBrace)>>,
     <<Fn("oracle_b", ""), Ch(LBrace), Skel("spineboy"), Golden("g1"), DumpPose("arm"), Ch(RBrace)>>,
     <<Fn("oracle_c", ""), Ch(LBrace), Skel("raptor"), Golden("g1"), Ch(RBrace)>>,
     <<Fn("oracle_d", ""), Ch(LBrace), Skel("spineboy"), GoldenSkel("g1"), Ch(RBrace)>>,
     <<Fn("oracle_e", "raptor"), Ch(LBrace), Golden("g1"), StepHalf, Ch(RBrace)>>,
     <<Fn("oracle_f", ""), Ch(LBrace), Golden("g2"), Ch(RBrace)>>,
     <<Fn("oracle_g", ""), Ch(LBrace), Skel("spineboy"), Ch(RBrace)>>,
     <<Fn("oracle_h", "")>>,
     <<Fn("oracle_i", ""), Ch(LBrace), Skel("spineboy"), Golden("g1"), StepDt, Ch(RBrace)>>,
     <<Fn("oracle_j", ""), Ch(LBrace), Skel("spineboy"), Golden("g1")>>}

RECURSIVE Files(_)
Files(n) ==
    IF n = 0 THEN {<<>>}
    ELSE Files(n - 1) \cup {f \o d : f \in Files(n - 1), d \in Definitions}

InitScenarios ==
    /\ pc = "scan"
    /\ rs \in Files(MaxTests)
    /\ m_end = 0
    /\ scenarios = <<>>
    /\ s_index = 0
    /\ unique = <<>>
    /\ result = Idle
    /\ ScanIdle /\ ChunkIdle /\ ParseIdle
    /\ OracleIdle /\ SourceIdle /\ MainIdle /\ OtherIdle

\* An iteration that ends in `continue`.
SkipTest ==
    /\ pc = "scan"
    /\ NextMatch(rs, m_end) >= 0
    /\ Iteration(rs, NextMatch(rs, m_end)).kind = "continue"
    /\ m_end' = NextMatch(rs, m_end) + 1
    /\ UNCHANGED <<pc, rs, scenarios, s_index, unique, result>>
    /\ UNCHANGED <<scanVars, chunkVars, parseVars, oracleVars, sourceVars, mainVars, otherVars>>

\* An iteration in which find_matching_brace_slow or parse_commands raises.
ScanRaises ==
    /\ pc = "scan"
    /\ NextMatch(rs, m_end) >= 0
    /\ Iteration(rs, NextMatch(rs, m_end)).kind = "raise"
    /\ result' = Raise(Iteration(rs, NextMatch(rs, m_end)).err)
    /\ pc' = "done"
    /\ UNCHANGED <<rs, m_end, scenarios, s_index, unique>>
    /\ UNCHANGED <<scanVars, chunkVars, parseVars, oracleVars, sourceVars, mainVars, otherVars>>

\* An iteration that reaches scenarios.append.
AppendScenario ==
    /\ pc = "scan"
    /\ NextMatch(rs, m_end) >= 0
    /\ Iteration(rs, NextMatch(rs, m_end)).kind = "append"
    /\ scenarios' = Append(scenarios, Iteration(rs, NextMatch(rs, m_end)).s)
    /\ m_end' = NextMatch(rs, m_end) + 1
    /\ UNCHANGED <<pc, rs, s_index, unique, result>>
    /\ UNCHANGED <<scanVars, chunkVars, parseVars, oracleVars, sourceVars, mainVars, otherVars>>

\* finditer is exhausted: unique = {}.
EndScan ==
    /\ pc = "scan"
    /\ NextMatch(rs, m_end) < 0
    /\ pc' = "dedup"
    /\ unique' = <<>>
    /\ s_index' = 0
    /\ UNCHANGED <<rs, m_end, scenarios, result>>
    /\ UNCHANGED <<scanVars, chunkVars, parseVars, oracleVars, sourceVars, mainVars, otherVars>>

\* for s in scenarios: unique[key] = s
DedupStep ==
    /\ pc = "dedup"
    /\ s_index < Len(scenarios)
    /\ unique' = Put(unique, KeyOf(At(scenarios, s_index)), At(scenarios, s_index))
    /\ s_index' = s_index + 1
    /\ UNCHANGED <<pc, rs, m_end, scenarios, result>>
    /\ UNCHANGED <<scanVars, chunkVars, parseVars, oracleVars, sourceVars, mainVars, otherVars>>

\* return list(unique.values())
ReturnUnique ==
    /\ pc = "dedup"
    /\ s_index = Len(scenarios)
    /\ result' = Return(Values(unique))
    /\ pc' = "done"
    /\ UNCHANGED <<rs, m_end, scenarios, s_index, unique>>
    /\ UNCHANGED <<scanVars, chunkVars, parseVars, oracleVars, sourceVars, mainVars, otherVars>>

NextScenarios ==
    \/ SkipTest
    \/ ScanRaises
    \/ AppendScenario
    \/ EndScan
    \/ DedupStep
    \/ ReturnUnique

SpecScenarios == InitScenarios /\ [][NextScenarios]_vars

(***************************************************************************)
(* Claims on the scenario specification.                                   *)
(***************************************************************************)
Max(S) == CHOOSE x \in S : \A y \in S : y <= x

Keys(ss) == {KeyOf(ss[i]) : i \in 1..Len(ss)}

\* The last of ss that has key k.
LastWith(ss, k) == ss[Max({i \in 1..Len(ss) : KeyOf(ss[i]) = k})]

Space == " "
Newline == "\n"
Whitespace == {Space, Newline}
OutChars == {Space, Newline, "[", "]", "x"}

\* str.strip()
NonBlank(s) == {i \in 1..Len(s) : s[i] \notin Whitespace}
Strip(s) == IF NonBlank(s) = {} THEN <<>> ELSE SubSeq(s, Min(NonBlank(s)), Max(NonBlank(s)))

\* The first position from i on that holds no whitespace (Len(s) + 1 when
\* there is none).
SkipSpace(s, i) == Min({j \in i..(Len(s) + 1) : j > Len(s) \/ s[j] \notin Whitespace})

\* The position after the JSON value that begins at i; 0 when none does.
RECURSIVE JsonValue(_, _)
JsonClosed(s, k) == IF k <= Len(s) /\ s[k] = "]" THEN k + 1 ELSE 0
JsonElement(s, e) == IF e = 0 THEN 0 ELSE JsonClosed(s, SkipSpace(s, e))
JsonArray(s, j) ==
    IF j <= Len(s) /\ s[j] = "]" THEN j + 1 ELSE JsonElement(s, JsonValue(s, j))
JsonValue(s, i) ==
    IF i > Len(s) \/ s[i] # "[" THEN 0 ELSE JsonArray(s, SkipSpace(s, i + 1))

\* json.loads(s) returns: s is one document, with nothing but whitespace
\* around it.
JsonEnds(s, e) == e # 0 /\ SkipSpace(s, e) > Len(s)
json_loads(s) == JsonEnds(s, JsonValue(s, SkipSpace(s, 1)))

ErrOracleFailed == "oracle failed"
ErrJSONDecode == "JSONDecodeError"

Checked(out) == IF json_loads(out) THEN Return(out \o <<Newline>>) ELSE Raise(ErrJSONDecode)

run_oracle(p) ==
    IF p.returncode # 0 THEN Raise(ErrOracleFailed) ELSE Checked(Strip(p.stdout))

(***************************************************************************)
(* The oracle specification: run_oracle is called once, the process having *)
(* exited with code 0 or 1 and printed at most MaxOut characters.          *)
(***************************************************************************)
MaxOut == 4

InitOracle ==
    /\ pc = "call"
    /\ proc \in [returncode : {0, 1}, stdout : SeqsUpTo(OutChars, MaxOut)]
    /\ payload = Idle
    /\ ScanIdle /\ ChunkIdle /\ ParseIdle /\ ScenarioIdle
    /\ SourceIdle /\ MainIdle /\ OtherIdle

CallRunOracle ==
    /\ pc = "call"
    /\ payload' = run_oracle(proc)
    /\ pc' = "done"
    /\ UNCHANGED proc
    /\ UNCHANGED <<scanVars, chunkVars, parseVars, scenarioVars, sourceVars, mainVars, otherVars>>

NextOracle == CallRunOracle

SpecOracle == InitOracle /\ [][NextOracle]_vars

\* C16: the golden content returned for a scenario is the oracle's captured
\* standard output, unmodified, followed by one newline.
C16_RawOutputPlusNewline ==
    (pc = "done" /\ ~Raised(payload)) => payload.v = proc.stdout \o <<Newline>>

(***************************************************************************)
(* update_golden_source.  The provenance file is [exists, text]; its text  *)
(* is a sequence of characters in which a key prefix (`Status: ` ...) and  *)
(* a value written after one are single symbols, "a" stands for every      *)
(* other character of a line and FormFeed for every character other than   *)
(* the newline at which str.splitlines breaks a line.  A commit of None is *)
(* the empty string: `if commit` tells neither from the other.  The clock  *)
(* reads Now.                                                              *)
(***************************************************************************)
FormFeed == "\f"
LineBreaks == {Newline, FormFeed}
KeyTargetCommit == "TargetCommit: "
KeyRecordedAtUTC == "RecordedAtUTC: "
KeyStatus == "Status: "
Keys3 == {KeyTargetCommit, KeyRecordedAtUTC, KeyStatus}
SourceChars == {Newline, FormFeed, "a"} \cup Keys3

StatusInProgress == "STALE (recording in progress)"
StatusFailed == "STALE (recording failed)"
StatusOK == "OK"
Now == "now"

Absent == [exists |-> FALSE, text |-> <<>>]
File(t) == [exists |-> TRUE, text |-> t]

\* str.splitlines()
RECURSIVE SplitFrom(_, _, _)
SplitFrom(t, i, line) ==
    IF i > Len(t) THEN (IF line = <<>> THEN <<>> ELSE <<line>>)
    ELSE IF t[i] \in LineBreaks THEN <<line>> \o SplitFrom(t, i + 1, <<>>)
    ELSE SplitFrom(t, i + 1, Append(line, t[i]))

splitlines(t) == SplitFrom(t, 1, <<>>)

DefaultLines == << <<"Source: https://github.com/EsotericSoftware/spine-runtimes">>,
                   <<"Branch: 4.3-beta">> >>

\* The list `lines` before the upserts.
ReadLines(f) == IF f.exists THEN splitlines(f.text) ELSE DefaultLines

\* line.startswith(prefix)
StartsWith(line, prefix) == line # <<>> /\ line[1] = prefix

\* upsert(prefix, value)
upsert(ls, prefix, value) ==
    IF \E i \in 1..Len(ls) : StartsWith(ls[i], prefix)
    THEN [ls EXCEPT ![Min({i \in 1..Len(ls) : StartsWith(ls[i], prefix)})] = <<prefix, value>>]
    ELSE Append(ls, <<prefix, value>>)

\* "\n".join(lines) + "\n"
RECURSIVE JoinLines(_)
JoinLines(ls) ==
    IF ls = <<>> THEN <<Newline>>
    ELSE IF Len(ls) = 1 THEN ls[1] \o <<Newline>>
    ELSE ls[1] \o <<Newline>> \o JoinLines(Tail(ls))

UpsertCommit(ls, c) == IF c # "" THEN upsert(ls, KeyTargetCommit, c) ELSE ls

\* The file after update_golden_source(status, c).
update_golden_source(f, status, c) ==
    File(JoinLines(upsert(upsert(UpsertCommit(ReadLines(f), c), KeyRecordedAtUTC, Now),
                          KeyStatus, status)))

(***************************************************************************)
(* The provenance specification: update_golden_source is called once on a  *)
(* file that is absent or holds at most MaxText characters.                *)
(***************************************************************************)
MaxText == 4

InitSource ==
    /\ pc = "call"
    /\ source_txt \in {Absent} \cup {File(t) : t \in SeqsUpTo(SourceChars, MaxText)}
    /\ upsert_args \in [status : {StatusInProgress, StatusFailed, StatusOK},
                        commit : {"", "c0ffee"}]
    /\ source_was = Idle
    /\ ScanIdle /\ ChunkIdle /\ ParseIdle /\ ScenarioIdle
    /\ OracleIdle /\ MainIdle /\ OtherIdle

CallUpdateGoldenSource ==
    /\ pc = "call"
    /\ source_was' = source_txt
    /\ source_txt' = update_golden_source(source_txt, upsert_args.status, upsert_args.commit)
    /\ pc' = "done"
    /\ UNCHANGED upsert_args
    /\ UNCHANGED <<scanVars, chunkVars, parseVars, scenarioVars, oracleVars, mainVars, otherVars>>

NextSource == CallUpdateGoldenSource

SpecSource == InitSource /\ [][NextSource]_vars

(***************************************************************************)
(* Claims on the provenance specification.  The lines of a file are told   *)
(* by its newlines.                                                        *)
(***************************************************************************)
RECURSIVE LinesFrom(_, _, _)
LinesFrom(t, i, line) ==
    IF i > Len(t) THEN (IF line = <<>> THEN <<>> ELSE <<line>>)
    ELSE IF t[i] = Newline THEN <<line>> \o LinesFrom(t, i + 1, <<>>)
    ELSE LinesFrom(t, i + 1, Append(line, t[i]))

LinesOf(f) == LinesFrom(f.text, 1, <<>>)

IsKeyLine(line) == \E k \in Keys3 : StartsWith(line, k)

\* The lines of ls that begin with none of the three keys, in order.
RECURSIVE Unrelated(_)
Unrelated(ls) ==
    IF ls = <<>> THEN <<>>
    ELSE (IF IsKeyLine(ls[1]) THEN <<>> ELSE <<ls[1]>>) \o Unrelated(Tail(ls))

FirstWith(ls, k) == Min({i \in 1..Len(ls) : StartsWith(ls[i], k)})
Has(ls, k) == \E i \in 1..Len(ls) : StartsWith(ls[i], k)

\* Key k got value v in place at its first line of `was`, or in a line
\* appended after them.
Upserted(was, is, k, v) ==
    IF Has(was, k) THEN is[FirstWith(was, k)] = <<k, v>>
    ELSE \E i \in (Len(was) + 1)..Len(is) : is[i] = <<k, v>>

\* C19: update_golden_source keeps every line of the file that begins with
\* none of `TargetCommit: `, `RecordedAtUTC: `, `Status: ` unchanged and in
\* order; replaces each of those keys in place at its first line, or appends
\* it; never lowers the line count; leaves the first `Status: ` line with
\* the given status; and leaves the TargetCommit lines alone when no commit
\* is known.
C19_UnrelatedLinesKept ==
    (pc = "done" /\ source_was.exists) =>
        /\ Unrelated(LinesOf(source_txt)) = Unrelated(LinesOf(source_was))
        /\ Len(LinesOf(source_txt)) >= Len(LinesOf(source_was))
        /\ Upserted(LinesOf(source_was), LinesOf(source_txt), KeyStatus, upsert_args.status)
        /\ Upserted(LinesOf(source_was), LinesOf(source_txt), KeyRecordedAtUTC, Now)
        /\ upsert_args.commit # "" =>
              Upserted(LinesOf(source_was), LinesOf(source_txt), KeyTargetCommit,
                       upsert_args.commit)
        /\ LinesOf(source_txt)[FirstWith(LinesOf(source_txt), KeyStatus)]
              = <<KeyStatus, upsert_args.status>>
        /\ upsert_args.commit = "" =>
              \A i \in 1..Len(LinesOf(source_was)) :
                  StartsWith(LinesOf(source_was)[i], KeyTargetCommit) =>
                      LinesOf(source_txt)[i] = LinesOf(source_was)[i]

(***************************************************************************)
(* main.  The batch runs in steps: one for the selection and the first     *)
(* provenance update, one for every scenario that is skipped or listed, one *)
(* for every oracle process, one for the final update.  Whether a skeleton *)
(* exists, how many atlas files sit next to it and what each oracle        *)
(* process does are the environment's, chosen when the code asks.  `trace`  *)
(* is the history of the loop: <<kind, i>> for the i-th selected scenario. *)
(***************************************************************************)
OldGolden == <<"o", "l", "d">>
NoError == "None"

\* The strings of the scenarios below, as Python orders them.
StringOrder == <<"g1", "g2", "raptor", "spineboy">>
StringRank(x) == CHOOSE i \in 1..Len(StringOrder) : StringOrder[i] = x
BoolRank(b) == IF b THEN 1 ELSE 0

\* a < b for the tuples (golden_is_skel, golden_file, skeleton_rel)
KeyLess(a, b) ==
    \/ BoolRank(a.golden_is_skel) < BoolRank(b.golden_is_skel)
    \/ /\ a.golden_is_skel = b.golden_is_skel
       /\ \/ StringRank(a.golden_file) < StringRank(b.golden_file)
          \/ /\ a.golden_file = b.golden_file
             /\ StringRank(a.skeleton_rel) < StringRank(b.skeleton_rel)

\* scenarios.sort(key=...): the sort is stable, so an element goes after the
\* smaller ones and after the equal ones that came before it.
SortPosition(ls, i) ==
    1 + Cardinality({j \in 1..Len(ls) :
                        \/ KeyLess(ls[j], ls[i])
                        \/ (j < i /\ ~KeyLess(ls[i], ls[j]))})
SortedScenarios(ls) ==
    [k \in 1..Len(ls) |-> ls[CHOOSE i \in 1..Len(ls) : SortPosition(ls, i) = k]]

\* pat.search(s.golden_file): the golden names here hold no pattern
\* character and none is part of another.
PatSearch(only, file) == only = file

\* The two filters of the selection loop.
Wanted(a, sc) ==
    /\ ~(a.formats = "json" /\ sc.golden_is_skel)
    /\ ~(a.formats = "skel" /\ ~sc.golden_is_skel)
    /\ (a.only # "" => PatSearch(a.only, sc.golden_file))

\* A selection loop in which every scenario looked at counts for the limit.
RECURSIVE SelectCounting(_, _, _, _)
SelectCounting(a, ls, i, sel) ==
    IF i > Len(ls) THEN sel
    ELSE IF a.limit # 0 /\ i >= a.limit
         THEN (IF Wanted(a, ls[i]) THEN Append(sel, ls[i]) ELSE sel)
    ELSE SelectCounting(a, ls, i + 1, IF Wanted(a, ls[i]) THEN Append(sel, ls[i]) ELSE sel)

\* The selection loop from element i on, `sel` being selected so far.
RECURSIVE SelectFrom(_, _, _, _)
SelectFrom(a, ls, i, sel) ==
    IF i > Len(ls) THEN sel
    ELSE IF ~Wanted(a, ls[i]) THEN SelectFrom(a, ls, i + 1, sel)
    ELSE IF a.limit # 0 /\ Len(sel) + 1 >= a.limit THEN Append(sel, ls[i])
    ELSE SelectFrom(a, ls, i + 1, Append(sel, ls[i]))

Select(a, ls) == SelectFrom(a, SortedScenarios(ls), 1, <<>>)

\* A directory listing that is tried as it comes.
Unsorted(dir) ==
    [k \in 1..Cardinality(dir) |-> CHOOSE x \in dir : Cardinality({y \in dir : y > x}) = k - 1]

\* sorted(export_dir.glob("*.atlas"))
iter_atlas_candidates(dir) ==
    [k \in 1..Cardinality(dir) |-> CHOOSE x \in dir : Cardinality({y \in dir : y < x}) = k - 1]

GoldenDir(sc) == IF sc.golden_is_skel THEN "oracle_scenarios_skel" ELSE "oracle_scenarios"
OutPath(sc) == <<GoldenDir(sc), sc.golden_file>>

\* A batch that does not mark the provenance before the loop.
MarkSkipped(f, a, c) == f

\* The provenance update before the loop.
MarkStale(f, a, c) ==
    IF a.dry_run THEN f ELSE update_golden_source(f, StatusInProgress, c)

FinalStatus(n) == IF n = 0 THEN StatusOK ELSE StatusFailed
FinalExit(n) == IF n = 0 THEN 0 ELSE 2

\* A final update that does not look at --dry-run.
FinalizeAlways(f, a, n, c) == update_golden_source(f, FinalStatus(n), c)

\* The provenance update after the loop.
Finalize(f, a, n, c) ==
    IF a.dry_run THEN f ELSE update_golden_source(f, FinalStatus(n), c)

\* A batch that goes on after every failure, and one that never does.
NeverAborts(a) == FALSE
AlwaysAborts(a) == TRUE

\* if not args.keep_going
Aborts(a) == ~a.keep_going

(***************************************************************************)
(* The batch specification.                                                *)
(***************************************************************************)
MaxScenarios == 2
MaxAtlas == 2

ScenarioPool ==
    { Scenario("a", "spineboy", "g1", FALSE, <<>>, "None"),
      Scenario("b", "raptor", "g1", FALSE, <<>>, "None"),
      Scenario("c", "spineboy", "g1", TRUE, <<>>, "None"),
      Scenario("d", "spineboy", "g2", FALSE, <<>>, "None") }

\* What extract_scenarios may return: one scenario per key.
ScenarioLists ==
    {ls \in SeqsUpTo(ScenarioPool, MaxScenarios) :
        \A i, j \in 1..Len(ls) : i # j => KeyOf(ls[i]) # KeyOf(ls[j])}

Paths == {OutPath(sc) : sc \in ScenarioPool}

\* What an oracle process may do.
Procs ==
    { [returncode |-> 0, stdout |-> <<"[", "]", Newline>>],
      [returncode |-> 0, stdout |-> <<"[", "[", "]", "]">>],
      [returncode |-> 0, stdout |-> <<"x">>],
      [returncode |-> 1, stdout |-> <<>>] }

InitMain ==
    /\ pc = "start"
    /\ scenarios \in ScenarioLists
    /\ args \in [only : {"", "g1"}, formats : {"json", "skel", "all"},
                 dry_run : BOOLEAN, limit : {0, 1, 2}, keep_going : BOOLEAN]
    /\ commit \in {"", "c0ffee"}
    /\ source_txt \in {Absent, File(<<KeyStatus, StatusOK, Newline>>)}
    /\ source_was = source_txt
    /\ upsert_args = Idle
    /\ golden_files = [p \in Paths |-> OldGolden]
    /\ selected = <<>> /\ s_pos = 1 /\ atlas_left = <<>> /\ last_err = NoError
    /\ ok = 0 /\ failed = 0 /\ exit_code = Idle /\ trace = <<>>
    /\ rs = Idle /\ m_end = Idle /\ s_index = Idle /\ unique = Idle /\ result = Idle
    /\ ScanIdle /\ ChunkIdle /\ ParseIdle /\ OracleIdle /\ OtherIdle

Untouched == <<scenarios, args, commit, source_was, upsert_args, rs, m_end, s_index,
               unique, result, scanVars, chunkVars, parseVars, oracleVars,
               recVars, renderVars, patchVars>>

\* Nothing matches: return 0 before anything is written.
NothingSelected ==
    /\ pc = "start"
    /\ Select(args, scenarios) = <<>>
    /\ pc' = "done"
    /\ exit_code' = 0
    /\ UNCHANGED <<selected, s_pos, atlas_left, last_err, ok, failed, golden_files,
                   trace, source_txt>>
    /\ UNCHANGED Untouched

\* The selection, and the provenance marked stale unless this is a dry run.
Begin ==
    /\ pc = "start"
    /\ Select(args, scenarios) # <<>>
    /\ selected' = Select(args, scenarios)
    /\ source_txt' = MarkStale(source_txt, args, commit)
    /\ pc' = "loop"
    /\ UNCHANGED <<s_pos, atlas_left, last_err, ok, failed, golden_files, exit_code, trace>>
    /\ UNCHANGED Untouched

InLoop == pc = "loop" /\ s_pos <= Len(selected)

\* A skip that counts the scenario as failed.
SkipAndCount ==
    /\ InLoop
    /\ s_pos' = s_pos + 1
    /\ failed' = failed + 1
    /\ trace' = Append(trace, <<"skip", s_pos, 0>>)
    /\ UNCHANGED <<selected, atlas_left, last_err, ok, golden_files, exit_code,
                   source_txt, pc>>
    /\ UNCHANGED Untouched

\* The skeleton is not a file, or no atlas sits next to it.
SkipScenario ==
    /\ InLoop
    /\ s_pos' = s_pos + 1
    /\ trace' = Append(trace, <<"skip", s_pos, 0>>)
    /\ UNCHANGED <<selected, atlas_left, last_err, ok, failed, golden_files, exit_code,
                   source_txt, pc>>
    /\ UNCHANGED Untouched

\* Dry run: the scenario is listed and counted.
DryRun ==
    /\ InLoop
    /\ args.dry_run
    /\ ok' = ok + 1
    /\ s_pos' = s_pos + 1
    /\ trace' = Append(trace, <<"dry", s_pos, 0>>)
    /\ UNCHANGED <<selected, atlas_left, last_err, failed, golden_files, exit_code,
                   source_txt, pc>>
    /\ UNCHANGED Untouched

\* The skeleton's directory holds the atlas files of dir, a file being the
\* rank of its name.
ListCandidates ==
    /\ InLoop
    /\ ~args.dry_run
    /\ \E dir \in (SUBSET (1..MaxAtlas)) \ {{}} :
          /\ atlas_left' = iter_atlas_candidates(dir)
          /\ trace' = Append(trace, <<"list", s_pos, iter_atlas_candidates(dir)>>)
    /\ last_err' = NoError
    /\ pc' = "try"
    /\ UNCHANGED <<selected, s_pos, ok, failed, golden_files, exit_code, source_txt>>
    /\ UNCHANGED Untouched

\* run_oracle returns: the payload is written and the scenario is done.
OracleSucceeds ==
    /\ pc = "try"
    /\ \E p \in Procs :
          /\ ~Raised(run_oracle(p))
          /\ golden_files' = [golden_files EXCEPT ![OutPath(selected[s_pos])] = run_oracle(p).v]
    /\ ok' = ok + 1
    /\ last_err' = NoError
    /\ trace' = Append(trace, <<"write", s_pos, atlas_left[1]>>)
    /\ s_pos' = s_pos + 1
    /\ pc' = "loop"
    /\ UNCHANGED <<selected, atlas_left, failed, exit_code, source_txt>>
    /\ UNCHANGED Untouched

\* run_oracle raises and another candidate is left.
OracleFails ==
    /\ pc = "try"
    /\ Len(atlas_left) > 1
    /\ \E p \in Procs : Raised(run_oracle(p)) /\ last_err' = run_oracle(p).err
    /\ atlas_left' = Tail(atlas_left)
    /\ trace' = Append(trace, <<"error", s_pos, atlas_left[1]>>)
    /\ UNCHANGED <<selected, s_pos, ok, failed, golden_files, exit_code, source_txt, pc>>
    /\ UNCHANGED Untouched

\* run_oracle raises for the last candidate, with --keep-going.
FailAndContinue ==
    /\ pc = "try"
    /\ Len(atlas_left) = 1
    /\ ~Aborts(args)
    /\ \E p \in Procs : Raised(run_oracle(p)) /\ last_err' = run_oracle(p).err
    /\ atlas_left' = <<>>
    /\ failed' = failed + 1
    /\ trace' = Append(trace, <<"failed", s_pos, atlas_left[1]>>)
    /\ s_pos' = s_pos + 1
    /\ pc' = "loop"
    /\ UNCHANGED <<selected, ok, golden_files, exit_code, source_txt>>
    /\ UNCHANGED Untouched

\* run_oracle raises for the last candidate, without --keep-going.
FailAndAbort ==
    /\ pc = "try"
    /\ Len(atlas_left) = 1
    /\ Aborts(args)
    /\ \E p \in Procs : Raised(run_oracle(p)) /\ last_err' = run_oracle(p).err
    /\ atlas_left' = <<>>
    /\ failed' = failed + 1
    /\ trace' = Append(trace, <<"failed", s_pos, atlas_left[1]>>)
    /\ source_txt' = update_golden_source(source_txt, StatusFailed, commit)
    /\ exit_code' = 2
    /\ pc' = "done"
    /\ UNCHANGED <<selected, s_pos, ok, golden_files>>
    /\ UNCHANGED Untouched

\* The loop is over: the final status and the exit code.
Finish ==
    /\ pc = "loop"
    /\ s_pos > Len(selected)
    /\ source_txt' = Finalize(source_txt, args, failed, commit)
    /\ exit_code' = FinalExit(failed)
    /\ pc' = "done"
    /\ UNCHANGED <<selected, s_pos, atlas_left, last_err, ok, failed, golden_files, trace>>
    /\ UNCHANGED Untouched

NextMain ==
    \/ NothingSelected
    \/ Begin
    \/ SkipScenario
    \/ DryRun
    \/ ListCandidates
    \/ OracleSucceeds
    \/ OracleFails
    \/ FailAndContinue
    \/ FailAndAbort
    \/ Finish

SpecMain == InitMain /\ [][NextMain]_vars

(***************************************************************************)
(* Claims on the batch specification.                                      *)
(***************************************************************************)
\* The value of the first `Status: ` line of the provenance file.
StatusOf(f) ==
    IF Has(LinesOf(f), KeyStatus)
    THEN LinesOf(f)[FirstWith(LinesOf(f), KeyStatus)][2]
    ELSE "None"

Happened(kind, i) == \E k \in 1..Len(trace) : trace[k][1] = kind /\ trace[k][2] = i
Wrote(i) == Happened("write", i)
FailedAll(i) == Happened("failed", i)
Handled(i) == Happened("skip", i) \/ Wrote(i) \/ FailedAll(i)
Invocations == {k \in 1..Len(trace) : trace[k][1] \in {"write", "error", "failed"}}

\* C11: two distinct selected scenarios never write the same golden path.
C11_DistinctOutputPaths ==
    pc # "start" =>
        \A i, j \in 1..Len(selected) :
            (i # j /\ Wrote(i) /\ Wrote(j)) => OutPath(selected[i]) # OutPath(selected[j])

\* C12: in a batch that is no dry run the provenance Status is the stale
\* marker from before the first oracle process or golden write until the
\* batch ends, and it is OK at the end only when every selected scenario
\* has been gone through and none has failed.
C12_StaleWhileInProgress ==
    (pc # "start" /\ ~args.dry_run) =>
        /\ pc \in {"loop", "try"} => StatusOf(source_txt) = StatusInProgress
        /\ (pc = "done" /\ StatusOf(source_txt) = StatusOK) =>
              (s_pos > Len(selected) /\ failed = 0)

C12_Witness ==
    /\ pc = "done" /\ ~args.dry_run
    /\ StatusOf(source_was) = StatusOK
    /\ StatusOf(source_txt) = StatusOK
    /\ Len(selected) = 2 /\ Wrote(1) /\ Wrote(2)

\* C13: without --keep-going, the scenario all of whose candidates fail is
\* the last thing the batch does: nothing is run or written after it, the
\* Status is the failed marker and the exit code is 2.
C13_FirstFailureAborts ==
    (pc # "start" /\ ~args.dry_run /\ ~args.keep_going) =>
        \A k \in 1..Len(trace) :
            trace[k][1] = "failed" =>
                /\ k = Len(trace)
                /\ pc = "done"
                /\ exit_code = 2
                /\ failed = 1
                /\ StatusOf(source_txt) = StatusFailed

C13_Witness ==
    /\ pc = "done" /\ ~args.dry_run /\ ~args.keep_going
    /\ Len(selected) = 2
    /\ FailedAll(1) /\ Happened("error", 1)
    /\ ~Handled(2)
    /\ golden_files = [p \in Paths |-> OldGolden]
    /\ exit_code = 2

\* What C14 says of a batch with --keep-going at its end: every selected
\* scenario was gone through, `failed` counts the scenarios all of whose
\* candidates failed, and Status OK with exit code 0 goes with a count of 0.
KeepGoingOutcome ==
    /\ s_pos > Len(selected)
    /\ \A i \in 1..Len(selected) : Handled(i)
    /\ failed = Cardinality({i \in 1..Len(selected) : FailedAll(i)})
    /\ (StatusOf(source_txt) = StatusOK /\ exit_code = 0) <=> (failed = 0)

C15_ExitZeroMeansAllWritten ==
    (pc = "done" /\ ~args.dry_run /\ exit_code = 0) =>
        \A i \in 1..Len(selected) : Wrote(i)

\* C17: a scenario that the batch has gone through either had its golden
\* file written after an oracle process that exited 0 with JSON output, or
\* is counted as failed with its golden file as it was before the batch.
C17_WrittenOrFailedUntouched ==
    (pc # "start" /\ ~args.dry_run) =>
        /\ \A i \in 1..Len(selected) :
              Handled(i) =>
                  \/ Wrote(i)
                  \/ FailedAll(i) /\ golden_files[OutPath(selected[i])] = OldGolden
        /\ \A p \in Paths :
              golden_files[p] # OldGolden => json_loads(Strip(golden_files[p]))
        /\ failed = Cardinality({i \in 1..Len(selected) : FailedAll(i)})

\* C18: a dry run starts no oracle process, writes no golden file, leaves
\* the provenance file as it was and ends with exit code 0.
C18_DryRunTouchesNothing ==
    (pc # "start" /\ args.dry_run) =>
        /\ Invocations = {}
        /\ golden_files = [p \in Paths |-> OldGolden]
        /\ source_txt = source_was
        /\ failed = 0
        /\ pc = "done" => exit_code = 0

C18_Witness ==
    /\ pc = "done" /\ args.dry_run
    /\ Len(selected) = 2
    /\ Happened("dry", 1) /\ Happened("dry", 2)
    /\ ok = 2
    /\ exit_code = 0

\* The oracle events of scenario i, and what was listed for it.
AttemptsOf(i) == {k \in Invocations : trace[k][2] = i}
WasListed(i) == Happened("list", i)
Listed(i) == trace[CHOOSE k \in 1..Len(trace) : trace[k][1] = "list" /\ trace[k][2] = i][3]
Ordinal(i, k) == 1 + Cardinality({j \in AttemptsOf(i) : j < k})
Writes(i) == {k \in AttemptsOf(i) : trace[k][1] = "write"}

C22_SkippedScenarioCountsNowhere ==
    pc # "start" =>
        /\ \A i \in 1..Len(selected) :
              Happened("skip", i) => (AttemptsOf(i) = {} /\ ~WasListed(i) /\ ~Happened("dry", i))
        /\ ok = Cardinality({i \in 1..Len(selected) : Wrote(i) \/ Happened("dry", i)})
        /\ failed = Cardinality({i \in 1..Len(selected) : FailedAll(i)})
        /\ (trace # <<>> /\ trace[Len(trace)][1] = "skip") =>
              /\ s_pos = trace[Len(trace)][2] + 1
              /\ \/ pc = "loop"
                 \/ pc = "done" /\ s_pos > Len(selected)

C22_Witness ==
    /\ pc = "done" /\ ~args.dry_run /\ ~args.keep_going
    /\ Len(selected) = 2
    /\ Happened("skip", 1) /\ Wrote(2)
    /\ ok = 1 /\ failed = 0 /\ exit_code = 0
    /\ golden_files[OutPath(selected[1])] = OldGolden

\* The scenarios of the corpus that pass the format and the name filter.
Passing == {scenarios[i] : i \in {j \in 1..Len(scenarios) : Wanted(args, scenarios[j])}}
Chosen == {selected[i] : i \in 1..Len(selected)}

\* C23: the selected list is the ascending prefix of the scenarios that pass
\* the format and the name filter: all of them with limit 0, min(L, number
\* passing) of them with a limit L >= 1; a rejected scenario takes no place
\* of the limit.
C23_SelectionIsSortedPrefix ==
    pc # "start" =>
        /\ \A i \in 1..(Len(selected) - 1) : KeyLess(selected[i], selected[i + 1])
        /\ Chosen \subseteq Passing
        /\ \A x \in Chosen, y \in Passing \ Chosen : KeyLess(x, y)
        /\ Len(selected) = IF args.limit = 0 THEN Cardinality(Passing)
                           ELSE Min({args.limit, Cardinality(Passing)})
        /\ \A sc \in Passing :
              /\ args.formats = "json" => ~sc.golden_is_skel
              /\ args.formats = "skel" => sc.golden_is_skel
              /\ args.only # "" => sc.golden_file = args.only

C23_Witness ==
    /\ pc = "loop"
    /\ args.limit = 1 /\ args.formats = "skel"
    /\ Len(scenarios) = 2
    /\ ~scenarios[1].golden_is_skel
    /\ selected = <<scenarios[2]>>

(***************************************************************************)
(* The loop specification: parse_commands is called once on a body that    *)
(* binds n = -1, h = -0.5, both or neither, followed by at most            *)
(* MaxLoopBody symbols: a call, a call with an unbound argument, loop      *)
(* headers with a literal, a bound and an unbound count, and the closing   *)
(* brace.                                                                  *)
(***************************************************************************)
MaxLoopBody == 6

LetN == Let("n", Un("neg", Digits("1", 1)))
LetH == Let("h", Un("neg", Num("0.5", 1, 2)))
UpdateHalf == Call("state", "update", <<Num("0.5", 1, 2)>>)
UpdateZz == Call("state", "update", <<Name(<<"z", "z">>)>>)

LoopPieces ==
    {<<UpdateHalf>>, <<UpdateZz>>, <<Ch(RBrace)>>,
     <<For(Digits("2", 2)), Ch(LBrace)>>, <<For(Digits("0", 0)), Ch(LBrace)>>,
     <<For(Name(<<"n">>)), Ch(LBrace)>>, <<For(Name(<<"h">>)), Ch(LBrace)>>,
     <<For(Name(<<"z", "z">>)), Ch(LBrace)>>}

RECURSIVE LoopBodiesUpTo(_)
LoopBodiesUpTo(n) ==
    IF n = 0 THEN {<<>>}
    ELSE LET shorter == LoopBodiesUpTo(n - 1)
         IN  shorter \cup {bp[1] \o bp[2] :
                             bp \in {x \in shorter \X LoopPieces : Len(x[1]) + Len(x[2]) = n}}

Bindings == {<<>>, <<LetN>>, <<LetH>>, <<LetN, LetH>>}

InitLoops ==
    /\ pc = "call"
    /\ body_text \in {l \o b : l \in Bindings, b \in LoopBodiesUpTo(MaxLoopBody)}
    /\ commands = Idle
    /\ ScanIdle /\ ChunkIdle /\ ScenarioIdle
    /\ OracleIdle /\ SourceIdle /\ MainIdle /\ OtherIdle

SpecLoops == InitLoops /\ [][NextParse]_vars

(***************************************************************************)
(* Claims on the loop specification.                                       *)
(***************************************************************************)
\* The loop headers of b: at the top level, inside a loop, after a loop.
LoopHeaders(b) == {i \in 0..(Len(b) - 1) : LoopAt(b, i)}

\* The count of the header at i names no binding of the body.
Unbound(b, i) ==
    At(b, i).count.op = "name" /\ At(b, i).count.s \notin DOMAIN extract_const_env(b)

\* The count of the header at i evaluates to a number below zero.
Negative(b, i) ==
    /\ ~Raised(parse_value(At(b, i).count, extract_const_env(b)))
    /\ parse_value(At(b, i).count, extract_const_env(b)).v.n < 0

\* C20: a body with a loop header, wherever it sits, whose count is an
\* unbound identifier or evaluates to a negative number makes parse_commands
\* raise.
C20_BadLoopCountRaises ==
    (pc = "done" /\ \E i \in LoopHeaders(body_text) :
                       Unbound(body_text, i) \/ Negative(body_text, i))
        => Raised(commands)

\* The offsets between the braces of the first loop of b.
InsideOffsets(b) == (FirstLoop(b) + 2)..(LoopClose(b) - 1)

\* The symbol at i cannot be compiled: a recognized call with an argument
\* that does not evaluate, or a loop header with an invalid count.
Uncompilable(b, i) ==
    \/ At(b, i) = UpdateZz
    \/ /\ LoopAt(b, i)
       /\ \/ Unbound(b, i)
          \/ /\ Negative(b, i)
             /\ RatTrunc(parse_value(At(b, i).count, extract_const_env(b)).v) < 0

\* C27: the region between the braces of a loop is compiled whatever the
\* count, 0 included: when it holds a call or a loop that cannot be
\* compiled, parse_commands raises.
C27_InnerRegionAlwaysCompiled ==
    (pc = "done" /\ CountedLoop(body_text)
        /\ \E i \in InsideOffsets(body_text) : Uncompilable(body_text, i))
        => Raised(commands)

\* C27 witness: a loop of count 0 around a call that cannot be compiled,
\* with nothing else in the body, raised.
C27_Witness ==
    /\ pc = "done"
    /\ body_text = <<For(Digits("0", 0)), Ch(LBrace), UpdateZz, Ch(RBrace)>>
    /\ Repeat(body_text) = 0
    /\ Raised(commands)

(***************************************************************************)
(* The environment specification: parse_commands is called once on a body  *)
(* of at most MaxEnvBody symbols: three bindings of dt (1.0/60.0, 0.5 and  *)
(* an expression that does not evaluate), a call that uses dt, a loop      *)
(* header and the closing brace.                                           *)
(***************************************************************************)
MaxEnvBody == 5

LetDtHalf == Let("dt", Num("0.5", 1, 2))
LetDtFoo == Let("dt", FnCall("foo", Digits("1", 1)))

EnvPieces ==
    {<<LetDt>>, <<LetDtHalf>>, <<LetDtFoo>>, <<StepDt>>,
     <<For(Digits("2", 2)), Ch(LBrace)>>, <<Ch(RBrace)>>}

RECURSIVE EnvBodiesUpTo(_)
EnvBodiesUpTo(n) ==
    IF n = 0 THEN {<<>>}
    ELSE LET shorter == EnvBodiesUpTo(n - 1)
         IN  shorter \cup {bp[1] \o bp[2] :
                             bp \in {x \in shorter \X EnvPieces : Len(x[1]) + Len(x[2]) = n}}

InitEnv ==
    /\ pc = "call"
    /\ body_text \in EnvBodiesUpTo(MaxEnvBody)
    /\ commands = Idle
    /\ ScanIdle /\ ChunkIdle /\ ScenarioIdle
    /\ OracleIdle /\ SourceIdle /\ MainIdle /\ OtherIdle

SpecEnv == InitEnv /\ [][NextParse]_vars

(***************************************************************************)
(* Claims on the environment specification.                                *)
(***************************************************************************)
\* The offsets of the bindings of name whose right-hand side evaluates.
Evaluating(b, name) ==
    {i \in 0..(Len(b) - 1) :
        At(b, i).k = "let" /\ At(b, i).name = name /\ ~Raised(safe_eval_f32(At(b, i).rhs))}

BoundNames(b) == {At(b, i).name : i \in {j \in 0..(Len(b) - 1) : At(b, j).k = "let"}}

\* The value of the textually last evaluating binding of name.
LastBinding(b, name) == safe_eval_f32(At(b, Max(Evaluating(b, name))).rhs).v

UsesDt(b) == \E i \in 0..(Len(b) - 1) : At(b, i) = StepDt

\* C24: the environment of a body holds, for each name, the value of the
\* textually last binding whose right-hand side evaluates, and no entry for
\* a name without one; every call of the body, at any depth and before or
\* after the binding, is compiled with that value; a binding that does not
\* evaluate raises nothing.
C24_LastEvaluatingBindingEverywhere ==
    pc = "done" =>
        /\ DOMAIN extract_const_env(body_text)
              = {name \in BoundNames(body_text) : Evaluating(body_text, name) # {}}
        /\ \A name \in DOMAIN extract_const_env(body_text) :
              extract_const_env(body_text)[name] = LastBinding(body_text, name)
        /\ ~Raised(commands) =>
              \A k \in 1..Len(commands.v) :
                  commands.v[k] = "--step" =>
                      commands.v[k + 1] = value_to_string(LastBinding(body_text, "dt"))
        /\ (UsesDt(body_text) /\ Evaluating(body_text, "dt") = {}) => Raised(commands)
        /\ (\A i \in 0..(Len(body_text) - 1) : At(body_text, i).k \in {"let", "call"}) =>
              (Raised(commands) <=> (UsesDt(body_text) /\ Evaluating(body_text, "dt") = {}))

\* C24 witness: dt is used inside a loop and bound after it; the call was
\* compiled twice with the value bound.
C24_Witness ==
    /\ pc = "done"
    /\ body_text = <<For(Digits("2", 2)), Ch(LBrace), StepDt, Ch(RBrace), LetDtHalf>>
    /\ commands = Return(<<"--physics", "none", "--step", "0.5",
                           "--physics", "none", "--step", "0.5">>)

(***************************************************************************)
(* The nesting specification: parse_commands is called once on a body of   *)
(* two calls and loops with counts in 0..MaxCount: an outer loop, with     *)
(* calls and a loop between its braces, then a second loop, with calls     *)
(* before, between and after.                                              *)
(***************************************************************************)
MaxCount == 2

CountToken(n) == Digits(<<"0", "1", "2", "3", "4">>[n + 1], n)
LoopOf(n, inner) == <<For(CountToken(n)), Ch(LBrace)>> \o inner \o <<Ch(RBrace)>>

OneCall == {<<>>, <<UpdateHalf>>, <<SetAnimationRun>>}
InnerLoops == {LoopOf(m, x) : m \in 0..MaxCount, x \in OneCall}
OuterLoops ==
    {LoopOf(n, a \o l \o b) :
        n \in 0..MaxCount, a \in OneCall, l \in InnerLoops \cup {<<>>}, b \in OneCall}

NestBodies ==
    {a \o o \o b \o l \o c :
        a \in {<<>>, <<UpdateHalf>>}, o \in OuterLoops, b \in {<<>>, <<SetAnimationRun>>},
        l \in InnerLoops \cup {<<>>}, c \in {<<>>, <<UpdateHalf>>}}

InitNest ==
    /\ pc = "call"
    /\ body_text \in NestBodies
    /\ commands = Idle
    /\ ScanIdle /\ ChunkIdle /\ ScenarioIdle
    /\ OracleIdle /\ SourceIdle /\ MainIdle /\ OtherIdle

SpecNest == InitNest /\ [][NextParse]_vars

(***************************************************************************)
(* Claims on the nesting specification.  The reference reads the body from *)
(* left to right.                                                          *)
(***************************************************************************)
TokensOfUpdateHalf == <<"--physics", "none", "--step", "0.5">>
TokensOfSetAnimationRun == <<"--set", "0", "run", "1">>
CallTokens(c) == IF c = UpdateHalf THEN TokensOfUpdateHalf ELSE TokensOfSetAnimationRun
CLITokens == {"--physics", "none", "--step", "0.5", "--set", "0", "run", "1"}

Depth(b, from, to) ==
    Cardinality({j \in from..to : b[j] = Ch(LBrace)})
        - Cardinality({j \in from..to : b[j] = Ch(RBrace)})

\* The brace that closes the one at b[2].
ClosingOf(b) == Min({c \in 3..Len(b) : Depth(b, 2, c) = 0})

RECURSIVE Expand(_)
Expand(b) ==
    IF b = <<>> THEN <<>>
    ELSE IF b[1].k = "call" THEN CallTokens(b[1]) \o Expand(Tail(b))
    ELSE Times(Expand(SubSeq(b, 3, ClosingOf(b) - 1)), b[1].count.v.n)
            \o Expand(SubSeq(b, ClosingOf(b) + 1, Len(b)))

\* C25: nested and sequential loops are materialized in place: the result
\* is the left-to-right expansion of the body; a loop of count N around a
\* loop of count M around a call gives the call's tokens N*M times; two
\* loops in sequence give N times the first block then M times the second;
\* and the list holds nothing but CLI tokens.
C25_LoopsMaterializedInPlace ==
    pc = "done" =>
        /\ commands = Return(Expand(body_text))
        /\ \A k \in 1..Len(commands.v) : commands.v[k] \in CLITokens
        /\ \A n \in 0..MaxCount, m \in 0..MaxCount :
              /\ body_text = LoopOf(n, LoopOf(m, <<UpdateHalf>>)) =>
                    /\ commands.v = Times(TokensOfUpdateHalf, n * m)
                    /\ Len(commands.v) = n * m * Len(TokensOfUpdateHalf)
              /\ body_text = LoopOf(n, <<UpdateHalf>>) \o LoopOf(m, <<SetAnimationRun>>) =>
                    commands.v = Times(TokensOfUpdateHalf, n) \o Times(TokensOfSetAnimationRun, m)

\* C25 witness: a call, a loop of count 2 around a call, a loop of count 2
\* and a call, then a call, a second loop and a last call were compiled.
C25_Witness ==
    /\ pc = "done"
    /\ body_text = <<UpdateHalf>>
                      \o LoopOf(2, <<SetAnimationRun>> \o LoopOf(2, <<UpdateHalf>>)
                                      \o <<SetAnimationRun>>)
                      \o <<SetAnimationRun>> \o LoopOf(1, <<UpdateHalf>>) \o <<UpdateHalf>>
    /\ ~Raised(commands)
    /\ Len(commands.v) = 4 * (1 + 2 * 4 + 1 + 1 + 1)

(***************************************************************************)
(* The run specification: main from its call of extract_scenarios on.  The *)
(* tests file is a list of at most MaxScenarios tests, each the scenario   *)
(* it describes and whether its body compiles; extract_scenarios raises at *)
(* the first body that does not, and the exception leaves main, which the  *)
(* interpreter ends with exit code 1.                                      *)
(***************************************************************************)
Test(sc, compiles) == [s |-> sc, compiles |-> compiles]

Corpora ==
    {[i \in 1..Len(ls) |-> Test(ls[i], i \notin broken)] :
        ls \in ScenarioLists, broken \in SUBSET (1..MaxScenarios)}

Compiles(corpus) == \A i \in 1..Len(corpus) : corpus[i].compiles

\* unique after the loop over the first n scenarios of the corpus
RECURSIVE UniqueOf(_, _)
UniqueOf(corpus, n) ==
    IF n = 0 THEN <<>>
    ELSE Put(UniqueOf(corpus, n - 1), KeyOf(corpus[n].s), corpus[n].s)

InitRun ==
    /\ pc = "extract"
    /\ rs \in Corpora
    /\ scenarios = <<>>
    /\ args \in [only : {"", "g1"}, formats : {"json", "skel", "all"},
                 dry_run : BOOLEAN, limit : {0, 1, 2}, keep_going : BOOLEAN]
    /\ commit \in {"", "c0ffee"}
    /\ source_txt \in {Absent, File(<<KeyStatus, StatusOK, Newline>>)}
    /\ source_was = source_txt
    /\ upsert_args = Idle
    /\ golden_files = [p \in Paths |-> OldGolden]
    /\ selected = <<>> /\ s_pos = 1 /\ atlas_left = <<>> /\ last_err = NoError
    /\ ok = 0 /\ failed = 0 /\ exit_code = Idle /\ trace = <<>>
    /\ m_end = Idle /\ s_index = Idle /\ unique = Idle /\ result = Idle
    /\ ScanIdle /\ ChunkIdle /\ ParseIdle /\ OracleIdle /\ OtherIdle

\* An extraction that leaves out the tests that do not compile.
ExtractSkipsBroken ==
    /\ pc = "extract"
    /\ ~Compiles(rs)
    /\ scenarios' = SelectSeq([i \in 1..Len(rs) |-> rs[i].s],
                              LAMBDA sc : \E i \in 1..Len(rs) : rs[i] = Test(sc, TRUE))
    /\ pc' = "start"
    /\ UNCHANGED <<rs, m_end, s_index, unique, result>>
    /\ UNCHANGED <<scanVars, chunkVars, parseVars, oracleVars, sourceVars, mainVars, otherVars>>

\* extract_scenarios raises.
ExtractRaises ==
    /\ pc = "extract"
    /\ ~Compiles(rs)
    /\ exit_code' = 1
    /\ pc' = "done"
    /\ UNCHANGED <<args, commit, selected, s_pos, atlas_left, last_err, ok, failed,
                   golden_files, trace>>
    /\ UNCHANGED <<rs, m_end, scenarios, s_index, unique, result>>
    /\ UNCHANGED <<scanVars, chunkVars, parseVars, oracleVars, sourceVars, otherVars>>

\* extract_scenarios returns.
ExtractReturns ==
    /\ pc = "extract"
    /\ Compiles(rs)
    /\ scenarios' = Values(UniqueOf(rs, Len(rs)))
    /\ pc' = "start"
    /\ UNCHANGED <<rs, m_end, s_index, unique, result>>
    /\ UNCHANGED <<scanVars, chunkVars, parseVars, oracleVars, sourceVars, mainVars, otherVars>>

\* The actions of main leave rs alone (Untouched).
NextRun ==
    \/ ExtractRaises
    \/ ExtractReturns
    \/ NothingSelected
    \/ Begin
    \/ SkipScenario
    \/ DryRun
    \/ ListCandidates
    \/ OracleSucceeds
    \/ OracleFails
    \/ FailAndContinue
    \/ FailAndAbort
    \/ Finish

SpecRun == InitRun /\ [][NextRun]_vars

(***************************************************************************)
(* Claims on the run specification.                                        *)
(***************************************************************************)
NothingDone ==
    /\ source_txt = source_was
    /\ golden_files = [p \in Paths |-> OldGolden]
    /\ trace = <<>>

\* C28: the whole corpus is compiled before anything is written or run: a
\* test that does not compile, selected by the filters or not, ends the run
\* with the provenance file and every golden file as they were and without
\* an oracle process.
C28_ExtractionBeforeEffects ==
    /\ pc = "extract" => NothingDone
    /\ (pc # "extract" /\ ~Compiles(rs)) =>
          (pc = "done" /\ exit_code # 0 /\ NothingDone)

\* C28 witness: with --limit 1 and --formats json the first test compiles
\* and passes the filters, the second does neither, and the run is over
\* with nothing done.
C28_Witness ==
    /\ pc = "done"
    /\ ~args.dry_run /\ args.limit = 1 /\ args.formats = "json"
    /\ Len(rs) = 2
    /\ rs[1].compiles /\ Wanted(args, rs[1].s)
    /\ ~rs[2].compiles /\ ~Wanted(args, rs[2].s)
    /\ exit_code = 1
    /\ NothingDone


(***************************************************************************)
(* scripts/patch_spine_runtimes_oracle.py.  The text of Slider.cpp is a    *)
(* sequence of pieces; each piece is a stretch of text that the searches   *)
(* of the patch either match as a whole or not at all: the two include     *)
(* lines, the marker, the block the pattern matches, the replacement of    *)
(* that block (which the pattern does not match) and other text.           *)
(***************************************************************************)
PATCH_MARKER == "SPINE2D_ORACLE_PATCH_SLIDER_SORT_SLOT_TIMELINE_CAST"
IncludeSlotTimeline == "#include <spine/SlotTimeline.h>"
IncludeSlotCurveTimeline == "#include <spine/SlotCurveTimeline.h>"
IncludeAttachmentTimeline == "#include <spine/AttachmentTimeline.h>"
IncludeSequenceTimeline == "#include <spine/SequenceTimeline.h>"
SlotTimelineBlock == "if (instanceOf(SlotTimeline)) { SlotTimeline *timeline ... }"
replacement == "if (instanceOf(SlotTimeline)) { int slotIndex = -1; ... }"

PatchedIncludes ==
    <<IncludeSlotTimeline, "\n", IncludeSlotCurveTimeline, "\n",
      IncludeAttachmentTimeline, "\n", IncludeSequenceTimeline, "\n",
      "// ", PATCH_MARKER>>

\* needle in text
In(needle, t) == \E i \in 1..Len(t) : t[i] = needle

\* text.replace(needle, by): every occurrence
RECURSIVE replace(_, _, _)
replace(t, needle, by) ==
    IF t = <<>> THEN <<>>
    ELSE (IF Head(t) = needle THEN by ELSE <<Head(t)>>)
         \o replace(Tail(t), needle, by)

\* pattern.subn(by, text, count=1): the text with the first match replaced,
\* and the number of replacements made
subn(by, t) ==
    IF ~In(SlotTimelineBlock, t) THEN [text2 |-> t, n |-> 0]
    ELSE LET i == CHOOSE k \in 1..Len(t) :
                      /\ t[k] = SlotTimelineBlock
                      /\ \A j \in 1..(k - 1) : t[j] # SlotTimelineBlock
         IN  [text2 |-> SubSeq(t, 1, i - 1) \o <<by>> \o SubSeq(t, i + 1, Len(t)),
              n |-> 1]

WithIncludes(t) ==
    IF ~In(IncludeSlotCurveTimeline, t)
    THEN replace(t, IncludeSlotTimeline, PatchedIncludes)
    ELSE t

patch_spine_cpp_slider_cpp(t) ==
    IF In(PATCH_MARKER, t) THEN Return(t)
    ELSE IF ~In(IncludeSlotTimeline, t)
    THEN Raise("Unexpected Slider.cpp: missing include <spine/SlotTimeline.h>")
    ELSE LET r == subn(replacement, WithIncludes(t))
         IN  IF r.n # 1
             THEN Raise("Failed to patch Slider.cpp: pattern not found (upstream changed?)")
             ELSE Return(r.text2)

MaxSlider == 3
SliderPieces ==
    {IncludeSlotTimeline, IncludeSlotCurveTimeline, PATCH_MARKER,
     SlotTimelineBlock, "\n"}

InitPatch ==
    /\ pc = "patch"
    /\ patch_text \in SeqsUpTo(SliderPieces, MaxSlider)
    /\ patched = Idle
    /\ repatched = Idle
    /\ ScanIdle /\ ChunkIdle /\ ParseIdle /\ ScenarioIdle
    /\ OracleIdle /\ SourceIdle /\ MainIdle /\ RecIdle /\ RenderIdle

\* the first patch raises: main writes nothing
PatchRaises ==
    /\ pc = "patch"
    /\ Raised(patch_spine_cpp_slider_cpp(patch_text))
    /\ patched' = patch_spine_cpp_slider_cpp(patch_text)
    /\ pc' = "raised"
    /\ UNCHANGED <<patch_text, repatched>>
    /\ UNCHANGED <<scanVars, chunkVars, parseVars, scenarioVars, oracleVars,
                   sourceVars, mainVars, recVars, renderVars>>

\* the first patch returns the text main writes to --out
PatchReturns ==
    /\ pc = "patch"
    /\ ~Raised(patch_spine_cpp_slider_cpp(patch_text))
    /\ patched' = patch_spine_cpp_slider_cpp(patch_text)
    /\ pc' = "again"
    /\ UNCHANGED <<patch_text, repatched>>
    /\ UNCHANGED <<scanVars, chunkVars, parseVars, scenarioVars, oracleVars,
                   sourceVars, mainVars, recVars, renderVars>>

\* the script is run on its own output
PatchAgain ==
    /\ pc = "again"
    /\ repatched' = patch_spine_cpp_slider_cpp(patched.v)
    /\ pc' = "done"
    /\ UNCHANGED <<patch_text, patched>>
    /\ UNCHANGED <<scanVars, chunkVars, parseVars, scenarioVars, oracleVars,
                   sourceVars, mainVars, recVars, renderVars>>

NextPatch == PatchRaises \/ PatchReturns \/ PatchAgain
SpecPatch == InitPatch /\ [][NextPatch]_vars

\* C30: patch_spine_cpp_slider_cpp is idempotent on its own output: whenever
\* it succeeds the result holds the patch marker (also when the input already
\* had the SlotCurveTimeline include), and patching the result again does not
\* raise and returns the result unchanged.
C30_PatchIdempotent ==
    pc = "done" =>
        /\ In(PATCH_MARKER, patched.v)
        /\ ~Raised(repatched)
        /\ repatched.v = patched.v


(***************************************************************************)
(* scripts/record_oracle_render_goldens.py: main and write_source.  Each   *)
(* format has two lists of cases (cases_<fmt>() and scenario_cases_<fmt>())*)
(* of MaxCases cases each; recording a case either writes its golden or    *)
(* raises.  find_examples_root and read_pinned_commit are taken to have    *)
(* returned.                                                               *)
(***************************************************************************)
MaxCases == 2
Formats == <<"json", "skel">>
CaseLists == <<"cases", "scenario_cases">>
NoSource == "no SOURCE.txt"

\* args.formats in (fmt, "all")
InFormats(a, fmt) == a.formats \in {fmt, "all"}

\* the Status line of the file write_source writes
write_source(source, fmt) == [source EXCEPT ![fmt] = "Status: OK"]

\* the place after the case at `at` in the loops of main
AfterCase(at) ==
    IF at.i < MaxCases THEN [at EXCEPT !.i = at.i + 1]
    ELSE IF at.list = 1 THEN [at EXCEPT !.list = 2, !.i = 1]
    ELSE [fmt |-> at.fmt + 1, list |-> 0, i |-> 0]

AtFormat == pc = "render" /\ render_at.list = 0 /\ render_at.fmt <= Len(Formats)
AtCase == pc = "render" /\ render_at.list > 0
TheCase == <<Formats[render_at.fmt], CaseLists[render_at.list], render_at.i>>

InitRender ==
    /\ pc = "render"
    /\ render_args \in [formats : {"json", "skel", "all"}, keep_going : BOOLEAN]
    /\ render_source \in [{"json", "skel"} -> {NoSource, "Status: OK"}]
    /\ render_at = [fmt |-> 1, list |-> 0, i |-> 0]
    /\ failures = 0
    /\ render_log = <<>>
    /\ render_exit = Idle
    /\ ScanIdle /\ ChunkIdle /\ ParseIdle /\ ScenarioIdle
    /\ OracleIdle /\ SourceIdle /\ MainIdle /\ RecIdle /\ PatchIdle

RenderFrame ==
    UNCHANGED <<scanVars, chunkVars, parseVars, scenarioVars, oracleVars,
                sourceVars, mainVars, recVars, patchVars>>

\* the format is not asked for
SkipFormat ==
    /\ AtFormat
    /\ ~InFormats(render_args, Formats[render_at.fmt])
    /\ render_at' = [render_at EXCEPT !.fmt = render_at.fmt + 1]
    /\ UNCHANGED <<pc, render_args, render_source, failures, render_log, render_exit>>
    /\ RenderFrame

\* out_dir.mkdir; write_source(out_dir, ...): before any case of the format
WriteSource ==
    /\ AtFormat
    /\ InFormats(render_args, Formats[render_at.fmt])
    /\ render_source' = write_source(render_source, Formats[render_at.fmt])
    /\ render_at' = [render_at EXCEPT !.list = 1, !.i = 1]
    /\ UNCHANGED <<pc, render_args, failures, render_log, render_exit>>
    /\ RenderFrame

\* record_one / record_one_scenario returns: the golden is written
RecordCase ==
    /\ AtCase
    /\ render_log' = Append(render_log, <<TheCase, TRUE>>)
    /\ render_at' = AfterCase(render_at)
    /\ UNCHANGED <<pc, render_args, render_source, failures, render_exit>>
    /\ RenderFrame

\* record_one / record_one_scenario raises, with --keep-going
CaseFails ==
    /\ AtCase
    /\ render_args.keep_going
    /\ failures' = failures + 1
    /\ render_log' = Append(render_log, <<TheCase, FALSE>>)
    /\ render_at' = AfterCase(render_at)
    /\ UNCHANGED <<pc, render_args, render_source, render_exit>>
    /\ RenderFrame

\* record_one / record_one_scenario raises, without --keep-going: return 1
CaseAborts ==
    /\ AtCase
    /\ ~render_args.keep_going
    /\ failures' = failures + 1
    /\ render_log' = Append(render_log, <<TheCase, FALSE>>)
    /\ render_exit' = 1
    /\ pc' = "done"
    /\ UNCHANGED <<render_args, render_source, render_at>>
    /\ RenderFrame

\* if failures: return 1; return 0
RenderReturns ==
    /\ pc = "render" /\ render_at.list = 0 /\ render_at.fmt > Len(Formats)
    /\ render_exit' = IF failures # 0 THEN 1 ELSE 0
    /\ pc' = "done"
    /\ UNCHANGED <<render_args, render_source, render_at, failures, render_log>>
    /\ RenderFrame

NextRender ==
    \/ SkipFormat \/ WriteSource \/ RecordCase \/ CaseFails \/ CaseAborts
    \/ RenderReturns
SpecRender == InitRender /\ [][NextRender]_vars

\* every case and scenario case of the format was recorded in this run
AllRecorded(fmt) ==
    \A l \in 1..Len(CaseLists), i \in 1..MaxCases :
        \E k \in 1..Len(render_log) : render_log[k] = <<<<fmt, CaseLists[l], i>>, TRUE>>

\* C26: after a run of the render recorder, the SOURCE.txt of a format
\* directory the run recorded into says `Status: OK` only if every case and
\* scenario case of that format was recorded successfully in the run; a run
\* that fails or aborts on a case leaves no `Status: OK` there.
C26_StatusOKOnlyAfterFullSuccess ==
    pc = "done" =>
        \A fmt \in {"json", "skel"} :
            InFormats(render_args, fmt) /\ render_source[fmt] = "Status: OK"
                => AllRecorded(fmt)


(***************************************************************************)
(* The recursion specification: the calls of parse_commands on one body,   *)
(* one step at a time.  stack holds the calls in progress, outermost       *)
(* first; a call is the region it compiles and the token lists its         *)
(* recursive calls have returned so far.  An exception unwinds every call. *)
(* The interpreter's recursion limit is scaled down to RecursionLimit.     *)
(* rec_log records every step: <<"call", length of the caller's body,      *)
(* length of the region, depth of the new call>>, <<"return", ...>> with   *)
(* the length of the body and the depth of the call that returns, and      *)
(* <<"raise", ...>> likewise.                                              *)
(***************************************************************************)
MaxRecBody == 6
RecursionLimit == MaxRecBody + 2
ErrRecursion == "RecursionError"

RecBodies == BodiesUpTo(MaxRecBody)

\* commands before the outermost call has ended
Pending == [err |-> "pending", v |-> <<>>]
NewCall(body) == [body |-> body, parts |-> <<>>]
Top == stack[Len(stack)]
TopEnv == extract_const_env(body_text)

\* loop_re.search(body) finds nothing
NoLoopIn(body) == \A i \in 0..(Len(body) - 1) : ~LoopAt(body, i)

\* start, close_brace and repeat of the first loop of body, or what raises
\* before the recursive calls
Header(body, env) ==
    LET start == Min({i \in 0..(Len(body) - 1) : LoopAt(body, i)})
        close_brace == find_matching_brace_slow(Chars(body), start + 1)
        value == parse_value(At(body, start).count, env)
    IN  IF Raised(close_brace) THEN close_brace
        ELSE IF Raised(value) THEN value
        ELSE IF RatTrunc(value.v) < 0 THEN Raise(ErrInvalidRepeat)
        ELSE Return([start |-> start, close_brace |-> close_brace.v,
                     repeat |-> RatTrunc(value.v)])

\* a region that starts at the loop header instead of after its brace
RegionFromLoop(body, start, close_brace) == Slice(body, start, Len(body))

\* before = body[:start]
RegionBefore(body, start, close_brace) == Slice(body, 0, start)
\* inside = body[open_brace + 1 : close_brace]
RegionInside(body, start, close_brace) == Slice(body, start + 2, close_brace)
\* after = body[close_brace + 1 :]
RegionAfter(body, start, close_brace) == Slice(body, close_brace + 1, Len(body))

\* the region of the k-th recursive call of a call on body
Region(body, h, k) ==
    IF k = 1 THEN RegionBefore(body, h.start, h.close_brace)
    ELSE IF k = 2 THEN RegionInside(body, h.start, h.close_brace)
    ELSE RegionAfter(body, h.start, h.close_brace)

\* what the call on top raises at this step, if it raises
RaisedNow ==
    IF NoLoopIn(Top.body) THEN parse_commands_no_loops(Top.body, TopEnv)
    ELSE IF Raised(Header(Top.body, TopEnv)) THEN Header(Top.body, TopEnv)
    ELSE IF Len(Top.parts) < 3 /\ Len(stack) >= RecursionLimit THEN Raise(ErrRecursion)
    ELSE Return(<<>>)

RecFrame ==
    UNCHANGED <<scanVars, chunkVars, scenarioVars, oracleVars, sourceVars,
                mainVars, renderVars, patchVars>>

\* the call on top returns tokens: to its caller, or out of parse_commands
Deliver(tokens) ==
    IF Len(stack) = 1
    THEN /\ commands' = Return(tokens)
         /\ stack' = <<>>
         /\ pc' = "done"
    ELSE /\ stack' = [SubSeq(stack, 1, Len(stack) - 1)
                        EXCEPT ![Len(stack) - 1].parts = Append(@, tokens)]
         /\ UNCHANGED <<commands, pc>>

InitRecursion ==
    /\ pc = "rec"
    /\ body_text \in RecBodies
    /\ commands = Pending
    /\ stack = <<NewCall(body_text)>>
    /\ rec_calls = 0
    /\ rec_log = <<>>
    /\ ScanIdle /\ ChunkIdle /\ ScenarioIdle
    /\ OracleIdle /\ SourceIdle /\ MainIdle /\ RenderIdle /\ PatchIdle

\* return parse_commands_no_loops(body, env)
ReturnNoLoops ==
    /\ pc = "rec"
    /\ NoLoopIn(Top.body)
    /\ ~Raised(RaisedNow)
    /\ Deliver(RaisedNow.v)
    /\ rec_log' = Append(rec_log, <<"return", Len(Top.body), 0, Len(stack) - 1>>)
    /\ UNCHANGED <<body_text, rec_calls>>
    /\ RecFrame

\* an exception in the call on top: it leaves parse_commands
RaiseInCall ==
    /\ pc = "rec"
    /\ Raised(RaisedNow)
    /\ commands' = RaisedNow
    /\ stack' = <<>>
    /\ pc' = "done"
    /\ rec_log' = Append(rec_log, <<"raise", Len(Top.body), 0, Len(stack) - 1>>)
    /\ UNCHANGED <<body_text, rec_calls>>
    /\ RecFrame

\* parse_commands(before, env), parse_commands(inside, env) or
\* parse_commands(after, env) is called
CallRegion ==
    /\ pc = "rec"
    /\ ~NoLoopIn(Top.body)
    /\ ~Raised(RaisedNow)
    /\ Len(Top.parts) < 3
    /\ LET region == Region(Top.body, Header(Top.body, TopEnv).v, Len(Top.parts) + 1)
       IN  /\ stack' = Append(stack, NewCall(region))
           /\ rec_log' = Append(rec_log, <<"call", Len(Top.body), Len(region), Len(stack)>>)
    /\ rec_calls' = rec_calls + 1
    /\ UNCHANGED <<pc, body_text, commands>>
    /\ RecFrame

\* return cmds, after the three extends
ReturnUnrolled ==
    /\ pc = "rec"
    /\ ~NoLoopIn(Top.body)
    /\ Len(Top.parts) = 3
    /\ Deliver(Top.parts[1]
               \o Replicate(Top.parts[2], Header(Top.body, TopEnv).v.repeat)
               \o Top.parts[3])
    /\ rec_log' = Append(rec_log, <<"return", Len(Top.body), 0, Len(stack) - 1>>)
    /\ UNCHANGED <<body_text, rec_calls>>
    /\ RecFrame

NextRecursion == ReturnNoLoops \/ RaiseInCall \/ CallRegion \/ ReturnUnrolled
SpecRecursion == InitRecursion /\ [][NextRecursion]_vars


\* the recursive calls made so far
RecCalls == {k \in 1..Len(rec_log) : rec_log[k][1] = "call"}

\* Every recursive call so far was made on a region strictly shorter than
\* the body it was cut from.
RegionsShorter == \A k \in RecCalls : rec_log[k][3] < rec_log[k][2]
\* No call was made deeper than the body is long, nor more calls than that.
DepthAndCallsBounded ==
    /\ \A k \in RecCalls : rec_log[k][4] <= Len(body_text)
    /\ Len(stack) <= Len(body_text) + 1
    /\ rec_calls = Cardinality(RecCalls)
    /\ rec_calls <= Len(body_text)
\* The run is never longer than 2 * len(body) + 1 steps, and a call in
\* progress always has a next step.
StepsBounded ==
    /\ Len(rec_log) <= 2 * Len(body_text) + 1
    /\ pc = "rec" => stack # <<>> /\ Len(Top.parts) <= 3
\* What leaves the outermost call is what parse_commands returns or raises.
ReturnsOrRaises ==
    pc = "done" =>
        /\ stack = <<>>
        /\ commands = parse_commands(body_text)
        /\ rec_log[Len(rec_log)][1] = (IF Raised(commands) THEN "raise" ELSE "return")

\* C29: parse_commands terminates on every body: every recursive call is on
\* a region strictly shorter than the body it was cut from, the depth of the
\* recursion and the number of recursive calls never exceed the length of
\* the body, the run has a bounded number of steps and never stops short of
\* the end of the outermost call, which returns a token list or raises.
C29_ParseCommandsTerminates ==
    /\ RegionsShorter
    /\ DepthAndCallsBounded
    /\ StepsBounded
    /\ ReturnsOrRaises

\* A loop in a loop, compiled to the end: six recursive calls, two deep.
C29_Witness ==
    /\ pc = "done"
    /\ body_text = <<For(Digits("2", 2)), Ch(LBrace), For(Digits("2", 2)), Ch(LBrace),
                     Ch(RBrace), Ch(RBrace)>>
    /\ ~Raised(commands)
    /\ rec_calls = 6
    /\ \E k \in RecCalls : rec_log[k][4] = 2

=============================================================================
